---------------------------- MODULE Spec2Model ----------------------------
(***************************************************************************)
(* Discovery / verification / aggregation pipeline of the prediction-      *)
(* market front end.                                                       *)
(*                                                                         *)
(*   POST  (claimable winnings of a wallet)                                *)
(*         src/src/components/MarketV2TradingInterface.tsx, lines 107-367  *)
(*   GET   (merged V1+V2 leaderboard, cached)                              *)
(*         src/Contract/PolicastViews.sol, lines 655-1042                  *)
(*                                                                         *)
(* Every remote read is one step; its outcome (a value or a fault) is      *)
(* chosen when the read is made.                                           *)
(***************************************************************************)
EXTENDS Integers, Sequences, FiniteSets, TLC

\* ------------------------------------------------------------------------
\* Bounds of the model
\* ------------------------------------------------------------------------

\* number of market handles the ledger can hand out (ids 0 .. NumMarkets-1)
NumMarkets == 3

\* cap on trade-history indices (const maxAttempts = 100 in the source)
maxAttempts == 3

\* cap on the fallback scan (Math.min(mCount, 300) in the source)
ScanCap == 2

\* largest option count of a market
MaxOptions == 2

\* largest share balance a read returns
MaxShares == 2

\* stand-in for the fixed-point scale 10n ** 18n
ShareScale == 2

\* largest PAYOUT_PER_SHARE value a successful read returns
MaxPayout == 3

\* number of wallets (ids 1 .. NumWallets)
NumWallets == 2

\* wallets 1 .. NumMixedCase also occur with a mixed-case address
NumMixedCase == 1

\* largest length of the V1 participants array
MaxV1 == 2

\* largest length of the V2 allParticipants array
MaxV2 == 2

\* largest totalWinnings of a wallet in one contract generation
MaxWin == 2

\* largest voteCount / tradeCount of a wallet in one contract generation
MaxCount == 1

\* stand-in for const PAGE_SIZE = 100
PAGE_SIZE == 2

\* stand-in for the V2 safety limit (v2ParticipantIndex < 10000)
V2Limit == 4

\* stand-in for the top-N cut .slice(0, 10)
TopN == 2

\* stand-in for batchFetchNeynarUsers' batchSize = 25
NeynarBatch == 1

\* number of GET requests of a behaviour of CacheSpec
MaxRequests == 2

\* number of GET requests of a behaviour of LBSpec
LBRequests == 1

\* largest length of either participants array in CacheSpec
CacheMaxList == 1

\* market handles of the ledger of TwiceSpec (ids 0 .. TwiceMarkets-1)
TwiceMarkets == 2

\* largest trade history of the wallet in TwiceSpec
TwiceTrades == 2

\* largest length of the V1 participants array in PagingSpec
PagingMaxV1 == 3

\* largest length of the V2 allParticipants array in PagingSpec
PagingMaxV2 == 1

\* number of wallets of the ledger of RankSpec (ids 1 .. RankWallets)
RankWallets == 3

\* largest length of the V2 allParticipants array in RankSpec
RankMaxV2 == 1

\* largest retries argument of withRetry
MaxRetries == 3

\* largest baseDelay argument of withRetry
MaxBaseDelay == 2

\* stand-in for the rate-limit floor Math.max(delay, 10000)
RateLimitFloor == 3

\* ------------------------------------------------------------------------
\* Values
\* ------------------------------------------------------------------------

MarketIds == 0 .. (NumMarkets - 1)

\* Number(undefined): a trade tuple that carries no usable market id
NaN == -1

\* let payoutPerShare: bigint = 100n * 10n ** 18n
DefaultPayout == 100 * ShareScale

\* outcomes of readContract(userTradeHistory, [user, index])
TradeOutcomes ==
    [kind : {"entry"}, marketId : MarketIds \cup {NaN}]
        \cup {[kind |-> "empty", marketId |-> NaN],
              [kind |-> "fault", marketId |-> NaN]}

\* outcomes of readContract(marketCount)
CountOutcomes ==
    [ok : {TRUE}, n : 0 .. NumMarkets] \cup {[ok |-> FALSE, n |-> 0]}

\* outcomes of readContract(PAYOUT_PER_SHARE)
PayoutOutcomes ==
    [ok : {TRUE}, v : (0 .. MaxPayout) \cup {DefaultPayout}]
        \cup {[ok |-> FALSE, v |-> 0]}

\* outcomes of readContract(getMarketBasicInfo, [marketId])
BasicOutcomes ==
    [ok : {TRUE}, optionCount : 0 .. MaxOptions,
     resolved : BOOLEAN, invalidated : BOOLEAN]
        \cup {[ok |-> FALSE, optionCount |-> 0,
               resolved |-> FALSE, invalidated |-> FALSE]}

\* outcomes of readContract(getMarketExtendedMeta, [marketId])
ExtOutcomes ==
    [ok : {TRUE}, winningOptionId : 0 .. (MaxOptions - 1), disputed : BOOLEAN]
        \cup {[ok |-> FALSE, winningOptionId |-> 0, disputed |-> FALSE]}

\* outcomes of readContract(getMarketOptionUserShares, [marketId, option, user])
ShareOutcomes ==
    [ok : {TRUE}, shares : 0 .. MaxShares] \cup {[ok |-> FALSE, shares |-> 0]}

\* outcomes of simulateContract(claimWinnings, [marketId])
SimOutcomes == {"ok", "alreadyclaimed", "nowinningshares", "other"}

\* ------------------------------------------------------------------------
\* State of one POST request
\* ------------------------------------------------------------------------
VARIABLES
    pc,                  \* position of the handler
    index,               \* readUserTradeHistory: let index
    trades,              \* readUserTradeHistory: const trades
    participatedMarkets, \* POST: let participatedMarkets
    markets,             \* fallbackScanParticipation: const markets
    mCount,              \* fallbackScanParticipation: const mCount
    marketId,            \* fallbackScanParticipation: loop variable
    option,              \* fallbackScanParticipation: inner loop variable
    optionCount,         \* fallbackScanParticipation: const optionCount
    payoutPerShare,      \* computeClaimableWinnings: let payoutPerShare
    vpos,                \* computeClaimableWinnings: position of the for-of loop
    winningOptionId,     \* computeClaimableWinnings: const winningOptionId
    sharesBI,            \* computeClaimableWinnings: const sharesBI
    results,             \* computeClaimableWinnings: const results
    response,            \* the NextResponse of the request
    \* history of the request (what was read), used by the properties
    tradesDone,          \* the primary strategy has returned
    tradesResult,        \* what discoverUserMarketsFromTrades returned
    tradeIdCount,        \* number of usable market ids in the trades read
    fallbackStarted,     \* fallbackScanParticipation was called
    fallbackReads,       \* number of ledger reads issued by the fallback scan
    payoutObs,           \* "none" | "read" | "fault": the batch's payout read
    obs,                 \* per market: what computeClaimableWinnings read
    \* history of discovery, kept in the behaviours of DiscoverySpec
    tradeLog,            \* the userTradeHistory reads issued, in order
    fbHead,              \* the marketCount and PAYOUT_PER_SHARE reads of the scan
    fbObs,               \* per market: what fallbackScanParticipation read
    \* two requests in a row against an unchanged ledger
    mode,                \* "single" | "discovery" | "record" | "replay"
    readLog,             \* what the first request read, in order
    replayPos,           \* number of reads of the second request so far
    firstResponse        \* the NextResponse of the first request

wvars == <<pc, index, trades, participatedMarkets, markets, mCount, marketId,
           option, optionCount, payoutPerShare, vpos, winningOptionId,
           sharesBI, results, response, tradesDone, tradesResult,
           tradeIdCount, fallbackStarted, fallbackReads, payoutObs, obs,
           tradeLog, fbHead, fbObs, mode, readLog, replayPos, firstResponse>>


\* ------------------------------------------------------------------------
\* State of the leaderboard route
\* ------------------------------------------------------------------------
VARIABLES
    \* the ledger and the process environment
    v1Participants,      \* V1 contract: participants, in leaderboard order
    v1Stats,             \* V1 contract: totalWinnings and voteCount per wallet
    v2Participants,      \* V2 contract: allParticipants
    v2Portfolio,         \* V2 contract: userPortfolios
    NEYNAR_API_KEY,      \* process.env.NEYNAR_API_KEY is set
    \* module state of the route
    cacheLeaderboard,    \* cache entry under CACHE_KEY
    cacheNeynar,         \* cache entry under NEYNAR_CACHE_KEY
    \* state of the running GET request
    lpc,                 \* position of the handler
    requestsLeft,        \* number of requests still to come
    tokenDecimals,       \* GET: const [tokenDecimals]
    totalParticipantsV1, \* GET: const totalParticipantsV1
    start,               \* GET: loop variable of the V1 paging
    entriesV1,           \* GET: const entriesV1
    v2ParticipantIndex,  \* GET: let v2ParticipantIndex
    batchPromises,       \* GET: const batchPromises
    batchResults,        \* GET: const batchResults
    bpos,                \* GET: position in batchResults
    entriesV2,           \* GET: const entriesV2
    combinedEntries,     \* GET: const combinedEntries (Map, in insertion order)
    winners,             \* GET: const winners
    addressesToFetch,    \* GET: const addressesToFetch
    addressToUsersMap,   \* GET: let addressToUsersMap (addresses with a user)
    chunk,               \* batchFetchNeynarUsers: loop variable i
    newUsersMap,         \* batchFetchNeynarUsers: const result
    lresponse,           \* the NextResponse of the last request
    \* history, used by the properties
    lastCached,          \* last list stored under CACHE_KEY
    v2Absent,            \* stored V2 indices whose read came back null
    portfolioFetched,    \* V2 indices whose portfolio read was issued
    portfolioFailed,     \* V2 indices whose portfolio read failed
    v1Pages,             \* the getLeaderboard pages requested, in order
    \* a second request in flight
    parked               \* position, locals and history of the request that
                         \* is not running

ledgerVars == <<v1Participants, v1Stats, v2Participants, v2Portfolio,
                NEYNAR_API_KEY>>
cacheVars  == <<cacheLeaderboard, cacheNeynar>>
v1Vars     == <<tokenDecimals, totalParticipantsV1, start, entriesV1, v1Pages>>
v2Vars     == <<v2ParticipantIndex, batchPromises, batchResults, bpos, entriesV2>>
v2Hist     == <<v2Absent, portfolioFetched, portfolioFailed>>
mergeVars  == <<combinedEntries, winners>>
neynarVars == <<addressesToFetch, addressToUsersMap, chunk, newUsersMap>>

lvars == <<ledgerVars, cacheVars, lpc, requestsLeft, v1Vars, v2Vars, v2Hist,
           mergeVars, neynarVars, lresponse, lastCached, parked>>

\* ------------------------------------------------------------------------
\* State of one withRetry call
\* ------------------------------------------------------------------------
VARIABLES
    rpc,                 \* position of withRetry
    retries,             \* withRetry: parameter retries
    baseDelay,           \* withRetry: parameter baseDelay
    retryI,              \* withRetry: loop variable i
    retryResult,         \* what the call returned or threw
    \* history, used by the properties
    calls,               \* outcomes of the invocations of fn, in order
    delays               \* the delays waited, in order

rvars == <<rpc, retries, baseDelay, retryI, retryResult, calls, delays>>

vars == <<wvars, lvars, rvars>>

\* ------------------------------------------------------------------------
\* Pure helpers
\* ------------------------------------------------------------------------

InSeq(x, s) == \E i \in 1 .. Len(s) : s[i] = x

\* Number.isNaN(mId)
IsNaN(x) == x = NaN

\* a copy that keeps repeated elements
SetFromSeqKeepAll(s) == s

\* Array.from(new Set(xs)): first occurrences, in insertion order
RECURSIVE SetFromSeq(_)
SetFromSeq(s) ==
    IF s = <<>> THEN <<>>
    ELSE LET front == SetFromSeq(SubSeq(s, 1, Len(s) - 1))
             last  == s[Len(s)]
         IN  IF InSeq(last, front) THEN front ELSE Append(front, last)

\* a sort that leaves the array as it is
SortAscUnsorted(s) == s

\* insertion of x into an ascending sequence
RECURSIVE InsertAsc(_, _)
InsertAsc(x, s) ==
    IF s = <<>> THEN <<x>>
    ELSE IF x < Head(s) THEN <<x>> \o s
    ELSE <<Head(s)>> \o InsertAsc(x, Tail(s))

\* xs.sort((a, b) => a - b)
RECURSIVE SortAsc(_)
SortAsc(s) ==
    IF s = <<>> THEN <<>>
    ELSE InsertAsc(s[Len(s)], SortAsc(SubSeq(s, 1, Len(s) - 1)))

\* the market ids of the trades, NaN ones dropped (the loop of
\* discoverUserMarketsFromTrades)
RECURSIVE TradeMarketIds(_)
TradeMarketIds(tr) ==
    IF tr = <<>> THEN <<>>
    ELSE LET rest == TradeMarketIds(SubSeq(tr, 1, Len(tr) - 1))
             mId  == tr[Len(tr)]
         IN  IF IsNaN(mId) THEN rest ELSE Append(rest, mId)

discoverUserMarketsFromTrades(tr) ==
    IF Len(tr) = 0 THEN <<>>
    ELSE SortAsc(SetFromSeq(TradeMarketIds(tr)))

\* the fallback scan run unconditionally
NeedFallbackAlways(found) == TRUE

\* POST: if (participatedMarkets.length === 0)
NeedFallback(found) == Len(found) = 0

\* POST: Array.from(new Set(participatedMarkets)).sort((a, b) => a - b)
DedupSort(pm) == SortAsc(SetFromSeq(pm))

Min(a, b) == IF a < b THEN a ELSE b

\* const maxScan = Math.min(mCount, 300)
maxScan(n) == Min(n, ScanCap)

\* the status check without the resolved test
SkipBasicInvalidatedOnly(resolved, invalidated) == invalidated

\* if (!resolved || invalidated) continue
SkipBasic(resolved, invalidated) == ~resolved \/ invalidated

\* if (disputed) continue
SkipDisputed(disputed) == disputed

\* if (sharesBI === 0n) continue
SkipShares(s) == s = 0

\* only the two named revert reasons make the market not claimable
SimClaimableUnlessNamed(outcome) ==
    outcome \notin {"alreadyclaimed", "nowinningshares"}

\* claimable after simulateContract: true only when the simulation succeeded
SimClaimable(outcome) == outcome = "ok"

\* the amount without the division by the scale
AmountUnscaled(s, p) == s * p

\* const amount = (sharesBI * payoutPerShare) / 10n ** 18n
Amount(s, p) == (s * p) \div ShareScale

\* if (amount > 0n) results.push(...)
EmitRecord(amount) == amount > 0

\* a per-market error that leaves the loop
AfterMarketErrorBreak(i, n) == n + 1

\* the catch of the per-market try: the for-of loop goes on with the next market
AfterMarketError(i, n) == i + 1

\* a loop that also reads the index at the cap
WithinCapInclusive(i) == i <= maxAttempts

\* readUserTradeHistory: while (index < maxAttempts)
WithinCap(i) == i < maxAttempts

\* a failed read that throws away the entries collected so far
OnTradeFaultDiscard(tr) == <<>>

\* readUserTradeHistory: the catch of a failed read breaks the loop and the
\* entries collected so far are returned
OnTradeFault(tr) == tr

\* a scan that counts every examined market as participated
ParticipatedAlways(shares) == TRUE

\* fallbackScanParticipation: if (toBigInt(shares) > 0n) participated = true
Participated(shares) == shares > 0

\* a scan that looks at option 0 only
MoreOptionsNone(o, n) == FALSE

\* fallbackScanParticipation: for (option = 0; option < optionCount; option++)
MoreOptions(o, n) == o + 1 < n

NoFbHead == [count |-> "none", n |-> 0, payout |-> "none"]

NoFbObs == [basic |-> "none", optionCount |-> 0, resolved |-> FALSE,
            reads |-> 0, nonzero |-> -1, fault |-> FALSE]

\* a results array that is left over from the previous call
NewResultsKept(prev) == prev

\* the default kept whatever the read returns
PayoutValueKeepDefault(r) == DefaultPayout

\* lines 288-297: the value read, and the default when the read throws
PayoutValue(r) == IF r.ok THEN r.v ELSE DefaultPayout

\* computeClaimableWinnings: const results = [] in every call
NewResults(prev) == <<>>

NoObs == [basic |-> "none", resolved |-> FALSE, invalidated |-> FALSE,
          ext |-> "none", disputed |-> FALSE,
          shares |-> "none", s |-> 0, sim |-> "none"]

OkResponse(pm, res) ==
    [status |-> 200, participatedMarkets |-> pm, winningsData |-> res]

ErrResponse(code) ==
    [status |-> code, participatedMarkets |-> <<>>, winningsData |-> <<>>]

NoResponse == [status |-> 0, participatedMarkets |-> <<>>, winningsData |-> <<>>]

\* ------------------------------------------------------------------------
\* Init
\* ------------------------------------------------------------------------
WInit ==
    /\ pc = "idle"
    /\ index = 0
    /\ trades = <<>>
    /\ participatedMarkets = <<>>
    /\ markets = <<>>
    /\ mCount = 0
    /\ marketId = 0
    /\ option = 0
    /\ optionCount = 0
    /\ payoutPerShare = DefaultPayout
    /\ vpos = 0
    /\ winningOptionId = 0
    /\ sharesBI = 0
    /\ results = <<>>
    /\ response = NoResponse
    /\ tradesDone = FALSE
    /\ tradesResult = <<>>
    /\ tradeIdCount = 0
    /\ fallbackStarted = FALSE
    /\ fallbackReads = 0
    /\ payoutObs = "none"
    /\ obs = [m \in MarketIds |-> NoObs]
    /\ tradeLog = <<>>
    /\ fbHead = NoFbHead
    /\ fbObs = [m \in MarketIds |-> NoFbObs]
    /\ readLog = <<>>
    /\ replayPos = 0
    /\ firstResponse = NoResponse


\* ------------------------------------------------------------------------
\* POST: the reads of a request and of its repetition
\* ------------------------------------------------------------------------

\* the history of discovery is kept
Tracing == mode = "discovery"

\* the input the handler is about to take: the request body or a ledger read
NextRead ==
    CASE pc = "idle"     -> [fn |-> "request.json", a |-> 0, b |-> 0]
      [] pc = "trades"   -> [fn |-> "userTradeHistory", a |-> index, b |-> 0]
      [] pc = "fbCount"  -> [fn |-> "marketCount", a |-> 0, b |-> 0]
      [] pc = "fbPayout" -> [fn |-> "PAYOUT_PER_SHARE", a |-> 0, b |-> 0]
      [] pc = "fbBasic"  -> [fn |-> "getMarketBasicInfo", a |-> marketId, b |-> 0]
      [] pc = "fbShares" -> [fn |-> "getMarketOptionUserShares", a |-> marketId,
                             b |-> option]
      [] pc = "vPayout"  -> [fn |-> "PAYOUT_PER_SHARE", a |-> 0, b |-> 0]
      [] pc = "vBasic"   -> [fn |-> "getMarketBasicInfo",
                             a |-> participatedMarkets[vpos], b |-> 0]
      [] pc = "vExt"     -> [fn |-> "getMarketExtendedMeta",
                             a |-> participatedMarkets[vpos], b |-> 0]
      [] pc = "vShares"  -> [fn |-> "getMarketOptionUserShares",
                             a |-> participatedMarkets[vpos],
                             b |-> winningOptionId]
      [] pc = "vSim"     -> [fn |-> "claimWinnings",
                             a |-> participatedMarkets[vpos], b |-> 0]
      [] OTHER           -> [fn |-> "none", a |-> 0, b |-> 0]

\* the ledger of TwiceSpec: the wallet has at most TwiceTrades trades, all
\* with a market id; market handles are below TwiceMarkets; a balance is 0
\* or MaxShares; the payout is 1 or MaxPayout; a simulated claim succeeds or
\* fails for an unnamed reason; fields of a tuple that the reader does not
\* look at have one value
InTwiceWorld(r) ==
    CASE pc = "trades"
           -> r.kind = "entry" => /\ index < TwiceTrades
                                  /\ r.marketId \in 0 .. (TwiceMarkets - 1)
      [] pc = "fbCount"  -> r.n <= TwiceMarkets
      [] pc = "fbPayout" -> r.ok => r.v = MaxPayout
      [] pc = "fbBasic"  -> r.ok => r.resolved /\ ~r.invalidated
      [] pc = "vPayout"  -> r.ok => r.v \in {1, MaxPayout}
      [] pc = "vBasic"   -> r.ok => r.optionCount = MaxOptions
      [] pc \in {"fbShares", "vShares"} -> r.ok => r.shares \in {0, MaxShares}
      [] pc = "vSim"     -> r \in {"ok", "other"}
      [] OTHER -> TRUE

\* the second request reads again what the first request read
SameAsFirst(r) ==
    /\ replayPos < Len(readLog)
    /\ readLog[replayPos + 1].fn = NextRead.fn
    /\ readLog[replayPos + 1].a = NextRead.a
    /\ readLog[replayPos + 1].b = NextRead.b
    /\ readLog[replayPos + 1].val = r

\* the values the input can take
Admit(r) ==
    CASE mode = "single" -> TRUE
      [] mode = "discovery" -> TRUE
      [] mode = "record" -> InTwiceWorld(r)
      [] mode = "replay" -> SameAsFirst(r)

Admitted(S) == {r \in S : Admit(r)}

LogStep(r) ==
    /\ readLog' = IF mode = "record"
                  THEN Append(readLog, [fn |-> NextRead.fn, a |-> NextRead.a,
                                        b |-> NextRead.b, val |-> r])
                  ELSE readLog
    /\ replayPos' = IF mode = "replay" THEN replayPos + 1 ELSE replayPos
    /\ UNCHANGED <<mode, firstResponse>>

\* ------------------------------------------------------------------------
\* POST: transitions shared by several steps
\* ------------------------------------------------------------------------
tradeVars == <<index, trades, tradesDone, tradesResult, tradeIdCount>>
fbVars    == <<markets, mCount, marketId, option, optionCount>>
fbHist    == <<fallbackStarted, fallbackReads>>
vLocals   == <<payoutPerShare, vpos, winningOptionId, sharesBI, results>>
vHist     == <<payoutObs, obs>>
discHist  == <<tradeLog, fbHead, fbObs>>

\* POST lines 132-150: deduplicate and sort, then computeClaimableWinnings;
\* with no market (line 284) the response is built at once
StartVerify(pm) ==
    \E sorted \in {DedupSort(pm)} :
    /\ participatedMarkets' = sorted
    /\ IF Len(sorted) = 0
       THEN /\ pc' = "done"
            /\ response' = OkResponse(sorted, <<>>)
       ELSE /\ pc' = "vPayout"
            /\ UNCHANGED response

\* the for-of loop of computeClaimableWinnings moves to position i
VerifyAdvance(i, res) ==
    /\ results' = res
    /\ vpos' = i
    /\ winningOptionId' = 0
    /\ sharesBI' = 0
    /\ IF i > Len(participatedMarkets)
       THEN /\ pc' = "done"
            /\ response' = OkResponse(participatedMarkets, res)
       ELSE /\ pc' = "vBasic"
            /\ UNCHANGED response

\* fallbackScanParticipation returns mk
FinishFallback(mk) ==
    /\ markets' = <<>>
    /\ mCount' = 0
    /\ marketId' = 0
    /\ option' = 0
    /\ optionCount' = 0
    /\ StartVerify(mk)

\* the scan loop of fallbackScanParticipation moves to market id
FallbackAdvance(mk, id) ==
    IF id >= maxScan(mCount)
    THEN FinishFallback(mk)
    ELSE /\ markets' = mk
         /\ marketId' = id
         /\ option' = 0
         /\ optionCount' = 0
         /\ pc' = "fbBasic"
         /\ UNCHANGED <<mCount, participatedMarkets, response>>

\* readUserTradeHistory returns tr: discoverUserMarketsFromTrades, then the
\* fallback decision of POST
FinishTrades(tr) ==
    \E found \in {discoverUserMarketsFromTrades(tr)} :
    /\ index' = 0
    /\ trades' = <<>>
    /\ tradesDone' = TRUE
    /\ tradesResult' = found
    /\ tradeIdCount' = Len(TradeMarketIds(tr))
    /\ IF NeedFallback(found)
       THEN /\ pc' = "fbCount"
            /\ fallbackStarted' = TRUE
            /\ UNCHANGED <<participatedMarkets, response, fallbackReads>>
       ELSE /\ StartVerify(found)
            /\ UNCHANGED fbHist

\* ------------------------------------------------------------------------
\* POST: the steps
\* ------------------------------------------------------------------------

\* request.json() throws: the outer catch answers 500
PostBadBody ==
    /\ pc = "idle"
    /\ Admit("throws") /\ LogStep("throws")
    /\ pc' = "done"
    /\ response' = ErrResponse(500)
    /\ UNCHANGED <<tradeVars, participatedMarkets, fbVars, fbHist, vLocals, vHist,
                   discHist>>
    /\ UNCHANGED <<lvars, rvars>>

\* if (!userAddress) return 400
PostNoAddress ==
    /\ pc = "idle"
    /\ Admit("no address") /\ LogStep("no address")
    /\ pc' = "done"
    /\ response' = ErrResponse(400)
    /\ UNCHANGED <<tradeVars, participatedMarkets, fbVars, fbHist, vLocals, vHist,
                   discHist>>
    /\ UNCHANGED <<lvars, rvars>>

\* a request with a user address enters readUserTradeHistory
PostStart ==
    /\ pc = "idle"
    /\ Admit("address") /\ LogStep("address")
    /\ pc' = "trades"
    /\ UNCHANGED <<tradeVars, participatedMarkets, response, fbVars, fbHist,
                   vLocals, vHist, discHist>>
    /\ UNCHANGED <<lvars, rvars>>

\* one iteration of the while loop of readUserTradeHistory
ReadTrade ==
    /\ pc = "trades"
    /\ WithinCap(index)
    /\ \E r \in Admitted(TradeOutcomes) :
         /\ LogStep(r)
         /\ tradeLog' = IF Tracing
                        THEN Append(tradeLog, [index |-> index, kind |-> r.kind,
                                               marketId |-> r.marketId])
                        ELSE tradeLog
         /\ IF r.kind = "entry"
            THEN LET tr == Append(trades, r.marketId) IN
                 IF WithinCap(index + 1)
                 THEN /\ trades' = tr
                      /\ index' = index + 1
                      /\ UNCHANGED <<pc, tradesDone, tradesResult, tradeIdCount,
                                     participatedMarkets, response, fbHist>>
                 ELSE FinishTrades(tr)
            ELSE IF r.kind = "fault"
            THEN FinishTrades(OnTradeFault(trades))
            ELSE FinishTrades(trades)
    /\ UNCHANGED <<fbVars, vLocals, vHist, fbHead, fbObs>>
    /\ UNCHANGED <<lvars, rvars>>

\* fallbackScanParticipation: read marketCount
FallbackCount ==
    /\ pc = "fbCount"
    /\ fallbackReads' = fallbackReads + 1
    /\ \E r \in Admitted(CountOutcomes) :
         /\ LogStep(r)
         /\ fbHead' = IF Tracing
                      THEN [fbHead EXCEPT
                              !.count = IF r.ok THEN "read" ELSE "fault",
                              !.n = r.n]
                      ELSE fbHead
         /\ IF ~r.ok \/ r.n = 0
            THEN FinishFallback(<<>>)
            ELSE /\ mCount' = r.n
                 /\ pc' = "fbPayout"
                 /\ UNCHANGED <<markets, marketId, option, optionCount,
                                participatedMarkets, response>>
    /\ UNCHANGED <<tradeVars, fallbackStarted, vLocals, vHist, tradeLog, fbObs>>
    /\ UNCHANGED <<lvars, rvars>>

\* fallbackScanParticipation: read PAYOUT_PER_SHARE (value unused)
FallbackPayout ==
    /\ pc = "fbPayout"
    /\ fallbackReads' = fallbackReads + 1
    /\ \E r \in Admitted(PayoutOutcomes) :
         /\ LogStep(r)
         /\ fbHead' = IF Tracing
                      THEN [fbHead EXCEPT
                              !.payout = IF r.ok THEN "read" ELSE "fault"]
                      ELSE fbHead
         /\ IF ~r.ok
            THEN FinishFallback(markets)
            ELSE FallbackAdvance(markets, 0)
    /\ UNCHANGED <<tradeVars, fallbackStarted, vLocals, vHist, tradeLog, fbObs>>
    /\ UNCHANGED <<lvars, rvars>>

\* fallbackScanParticipation: read getMarketBasicInfo of the scanned market
FallbackBasic ==
    /\ pc = "fbBasic"
    /\ fallbackReads' = fallbackReads + 1
    /\ \E r \in Admitted(BasicOutcomes) :
         /\ LogStep(r)
         /\ fbObs' = IF Tracing
                     THEN [fbObs EXCEPT ![marketId] =
                             [@ EXCEPT !.basic = IF r.ok THEN "read" ELSE "fault",
                                       !.optionCount = r.optionCount,
                                       !.resolved = r.resolved]]
                     ELSE fbObs
         /\ IF ~r.ok \/ r.optionCount = 0
            THEN FallbackAdvance(markets, marketId + 1)
            ELSE /\ optionCount' = r.optionCount
                 /\ option' = 0
                 /\ pc' = "fbShares"
                 /\ UNCHANGED <<markets, mCount, marketId, participatedMarkets,
                                response>>
    /\ UNCHANGED <<tradeVars, fallbackStarted, vLocals, vHist, tradeLog, fbHead>>
    /\ UNCHANGED <<lvars, rvars>>

\* fallbackScanParticipation: read the balance of one option
FallbackShares ==
    /\ pc = "fbShares"
    /\ fallbackReads' = fallbackReads + 1
    /\ \E r \in Admitted(ShareOutcomes) :
         /\ LogStep(r)
         /\ fbObs' = IF Tracing
                     THEN [fbObs EXCEPT ![marketId] =
                             IF ~r.ok THEN [@ EXCEPT !.fault = TRUE]
                             ELSE [@ EXCEPT !.reads = @ + 1,
                                            !.nonzero = IF r.shares > 0
                                                        THEN option ELSE -1]]
                     ELSE fbObs
         /\ IF ~r.ok
            THEN FallbackAdvance(markets, marketId + 1)
            ELSE IF Participated(r.shares)
            THEN FallbackAdvance(Append(markets, marketId), marketId + 1)
            ELSE IF MoreOptions(option, optionCount)
            THEN /\ option' = option + 1
                 /\ UNCHANGED <<pc, markets, mCount, marketId, optionCount,
                                participatedMarkets, response>>
            ELSE FallbackAdvance(markets, marketId + 1)
    /\ UNCHANGED <<tradeVars, fallbackStarted, vLocals, vHist, tradeLog, fbHead>>
    /\ UNCHANGED <<lvars, rvars>>

\* computeClaimableWinnings: read PAYOUT_PER_SHARE once
VerifyPayout ==
    /\ pc = "vPayout"
    /\ \E r \in Admitted(PayoutOutcomes) :
         /\ LogStep(r)
         /\ payoutPerShare' = PayoutValue(r)
         /\ payoutObs' = IF r.ok THEN "read" ELSE "fault"
    /\ results' = NewResults(results)
    /\ vpos' = 1
    /\ pc' = "vBasic"
    /\ UNCHANGED <<tradeVars, participatedMarkets, response, fbVars, fbHist,
                   winningOptionId, sharesBI, obs, discHist>>
    /\ UNCHANGED <<lvars, rvars>>

\* computeClaimableWinnings: read getMarketBasicInfo of the candidate
VerifyBasic ==
    /\ pc = "vBasic"
    /\ LET m == participatedMarkets[vpos] IN
       \E r \in Admitted(BasicOutcomes) :
         /\ LogStep(r)
         /\ obs' = [obs EXCEPT ![m] =
                      [@ EXCEPT !.basic = IF r.ok THEN "read" ELSE "fault",
                                !.resolved = r.resolved,
                                !.invalidated = r.invalidated]]
         /\ IF ~r.ok
            THEN VerifyAdvance(AfterMarketError(vpos, Len(participatedMarkets)),
                               results)
            ELSE IF SkipBasic(r.resolved, r.invalidated)
            THEN VerifyAdvance(vpos + 1, results)
            ELSE /\ pc' = "vExt"
                 /\ UNCHANGED <<vpos, winningOptionId, sharesBI, results,
                                response>>
    /\ UNCHANGED <<tradeVars, participatedMarkets, fbVars, fbHist,
                   payoutPerShare, payoutObs, discHist>>
    /\ UNCHANGED <<lvars, rvars>>

\* computeClaimableWinnings: read getMarketExtendedMeta of the candidate
VerifyExt ==
    /\ pc = "vExt"
    /\ LET m == participatedMarkets[vpos] IN
       \E r \in Admitted(ExtOutcomes) :
         /\ LogStep(r)
         /\ obs' = [obs EXCEPT ![m] =
                      [@ EXCEPT !.ext = IF r.ok THEN "read" ELSE "fault",
                                !.disputed = r.disputed]]
         /\ IF ~r.ok
            THEN VerifyAdvance(AfterMarketError(vpos, Len(participatedMarkets)),
                               results)
            ELSE IF SkipDisputed(r.disputed)
            THEN VerifyAdvance(vpos + 1, results)
            ELSE /\ pc' = "vShares"
                 /\ winningOptionId' = r.winningOptionId
                 /\ UNCHANGED <<vpos, sharesBI, results, response>>
    /\ UNCHANGED <<tradeVars, participatedMarkets, fbVars, fbHist,
                   payoutPerShare, payoutObs, discHist>>
    /\ UNCHANGED <<lvars, rvars>>

\* computeClaimableWinnings: read the balance of the winning option
VerifyShares ==
    /\ pc = "vShares"
    /\ LET m == participatedMarkets[vpos] IN
       \E r \in Admitted(ShareOutcomes) :
         /\ LogStep(r)
         /\ obs' = [obs EXCEPT ![m] =
                      [@ EXCEPT !.shares = IF r.ok THEN "read" ELSE "fault",
                                !.s = r.shares]]
         /\ IF ~r.ok
            THEN VerifyAdvance(AfterMarketError(vpos, Len(participatedMarkets)),
                               results)
            ELSE IF SkipShares(r.shares)
            THEN VerifyAdvance(vpos + 1, results)
            ELSE /\ pc' = "vSim"
                 /\ sharesBI' = r.shares
                 /\ UNCHANGED <<vpos, winningOptionId, results, response>>
    /\ UNCHANGED <<tradeVars, participatedMarkets, fbVars, fbHist,
                   payoutPerShare, payoutObs, discHist>>
    /\ UNCHANGED <<lvars, rvars>>

\* computeClaimableWinnings: simulate claimWinnings, then compute the amount
VerifySim ==
    /\ pc = "vSim"
    /\ LET m == participatedMarkets[vpos] IN
       \E r \in Admitted(SimOutcomes) :
         /\ LogStep(r)
         /\ obs' = [obs EXCEPT ![m] = [@ EXCEPT !.sim = r]]
         /\ IF ~SimClaimable(r)
            THEN VerifyAdvance(vpos + 1, results)
            ELSE LET amount == Amount(sharesBI, payoutPerShare) IN
                 IF EmitRecord(amount)
                 THEN VerifyAdvance(vpos + 1,
                        Append(results, [marketId |-> m, amount |-> amount,
                                         hasWinnings |-> TRUE]))
                 ELSE VerifyAdvance(vpos + 1, results)
    /\ UNCHANGED <<tradeVars, participatedMarkets, fbVars, fbHist,
                   payoutPerShare, payoutObs, discHist>>
    /\ UNCHANGED <<lvars, rvars>>

\* the request has been answered and the same request is made again; the
\* handler's history starts anew, its variables are as the first call left them
PostAgain ==
    /\ pc = "done"
    /\ mode = "record"
    /\ mode' = "replay"
    /\ firstResponse' = response
    /\ pc' = "idle"
    /\ response' = NoResponse
    /\ tradesDone' = FALSE
    /\ tradesResult' = <<>>
    /\ tradeIdCount' = 0
    /\ fallbackStarted' = FALSE
    /\ fallbackReads' = 0
    /\ payoutObs' = "none"
    /\ obs' = [m \in MarketIds |-> NoObs]
    /\ UNCHANGED <<index, trades, participatedMarkets, fbVars, vLocals,
                   discHist, readLog, replayPos>>
    /\ UNCHANGED <<lvars, rvars>>

WNext ==
    \/ PostBadBody
    \/ PostNoAddress
    \/ PostStart
    \/ ReadTrade
    \/ FallbackCount
    \/ FallbackPayout
    \/ FallbackBasic
    \/ FallbackShares
    \/ VerifyPayout
    \/ VerifyBasic
    \/ VerifyExt
    \/ VerifyShares
    \/ VerifySim



\* ------------------------------------------------------------------------
\* GET (leaderboard): values
\* ------------------------------------------------------------------------

WalletIds == 1 .. NumWallets

\* an address string: the wallet and whether the string is in mixed case
Addrs == {a \in [id : WalletIds, upper : BOOLEAN] :
            a.upper => a.id <= NumMixedCase}

\* the null of .catch(() => null)
Null == [id |-> 0, upper |-> FALSE]

\* String.prototype.toLowerCase on an address
toLowerCase(a) == [a EXCEPT !.upper = FALSE]

\* the value of token decimals() on the ledger
DecimalsValues == {18}

Stats == [totalWinnings : 0 .. MaxWin, voteCount : 1 .. MaxCount]

ZeroStats == [totalWinnings |-> 0, voteCount |-> 1]

SeqsUpTo(S, n) == UNION {[1 .. k -> S] : k \in 0 .. n}

ListedIds(seq) == {seq[i].id : i \in 1 .. Len(seq)}

\* NodeCache entry states: never set or deleted, within its TTL, past its TTL
AbsentEntry(empty) == [state |-> "absent", value |-> empty]

FreshEntry(v) == [state |-> "fresh", value |-> v]

\* a credential check that lets every request pass
MissingKeyIgnored(key) == FALSE

\* if (!neynarApiKey)
MissingKey(key) == ~key

\* a lookup that never finds the entry
CacheHitNever(entry) == FALSE

\* cache.get(key) returns the value only within the TTL
CacheHit(entry) == entry.state = "fresh"

\* cache.get(key) on an entry past its TTL deletes it (deleteOnExpire)
AfterGet(entry, empty) ==
    IF entry.state = "expired" THEN AbsentEntry(empty) ELSE entry

\* ------------------------------------------------------------------------
\* GET: pure helpers
\* ------------------------------------------------------------------------

\* getLeaderboard(start, PAGE_SIZE) of the V1 contract
V1Entry(a) == [user |-> a,
               totalWinnings |-> v1Stats[a.id].totalWinnings,
               voteCount |-> v1Stats[a.id].voteCount]

V1Page(from) ==
    [i \in 1 .. (Min(from + PAGE_SIZE, Len(v1Participants)) - from)
        |-> V1Entry(v1Participants[from + i])]

\* a promise of the batch that has not settled
PendingRead == [settled |-> FALSE, value |-> Null, seq |-> 0]

\* the results taken in the order in which the reads settled
PromiseAllByCompletion(ps) ==
    [n \in 1 .. Len(ps) |-> ps[CHOOSE k \in 1 .. Len(ps) : ps[k].seq = n].value]

\* await Promise.all(batchPromises): the values in the order of the promises
PromiseAll(ps) == [k \in 1 .. Len(ps) |-> ps[k].value]

\* a paging loop that also requests the page at the count
MorePagesInclusive(next, total) == next <= total

\* for (let start = 0; start < Number(totalParticipantsV1); start += PAGE_SIZE)
MorePages(next, total) == next < total

\* the address taken as the key without case normalisation
MergeKeyRaw(user) == user

\* the key of combinedEntries
MergeKey(user) == toLowerCase(user)

\* position of key k in the map, 0 when absent (Map.get)
MapIndex(map, k) ==
    IF \E i \in 1 .. Len(map) : map[i].key = k
    THEN CHOOSE i \in 1 .. Len(map) : map[i].key = k
    ELSE 0

\* Map.set: replaces the value of an existing key in place, else appends
MapSet(map, k, e) ==
    LET v == [key |-> k, user |-> e.user, totalWinnings |-> e.totalWinnings,
              voteCount |-> e.voteCount]
        i == MapIndex(map, k)
    IN  IF i = 0 THEN Append(map, v) ELSE [map EXCEPT ![i] = v]

\* entriesV1.forEach: set, whatever the map holds
RECURSIVE AddV1(_, _)
AddV1(map, es) ==
    IF es = <<>> THEN map
    ELSE AddV1(MapSet(map, MergeKey(Head(es).user), Head(es)), Tail(es))

\* the entry stored when the key exists already
CombineExisting(existing, entry) ==
    [user |-> entry.user,
     totalWinnings |-> existing.totalWinnings + entry.totalWinnings,
     voteCount |-> existing.voteCount + entry.voteCount]

\* entriesV2.forEach: combine with the existing entry of the key, else set
RECURSIVE AddV2(_, _)
AddV2(map, es) ==
    IF es = <<>> THEN map
    ELSE LET k == MergeKey(Head(es).user)
             i == MapIndex(map, k)
         IN  AddV2(MapSet(map, k,
                          IF i # 0 THEN CombineExisting(map[i], Head(es))
                          ELSE Head(es)),
                   Tail(es))

Merge(e1, e2) == AddV2(AddV1(<<>>, e1), e2)

\* Number(totalWinnings) / Math.pow(10, tokenDecimals)
ToDisplay(raw, d) == [units |-> raw, decimals |-> d]

\* Array.prototype.filter
RECURSIVE SelectSeqBy(_, _)
SelectSeqBy(s, keep) ==
    IF s = <<>> THEN <<>>
    ELSE IF Head(s) \in keep THEN <<Head(s)>> \o SelectSeqBy(Tail(s), keep)
    ELSE SelectSeqBy(Tail(s), keep)

\* const winners = ...filter(totalWinnings > 0).map(...)
Winners(map, d) ==
    LET pos == SelectSeqBy(map, {map[i] : i \in {j \in 1 .. Len(map) :
                                     map[j].totalWinnings > 0}})
    IN  [i \in 1 .. Len(pos) |->
            [address |-> toLowerCase(pos[i].user),
             winnings |-> ToDisplay(pos[i].totalWinnings, d),
             voteCount |-> pos[i].voteCount]]

\* winners.map(w => w.address).filter(addr => !neynarCache[addr])
AddressesToFetch(ws, known) ==
    LET as == [i \in 1 .. Len(ws) |-> ws[i].address]
    IN  SelectSeqBy(as, {as[i] : i \in 1 .. Len(as)} \ known)

\* insertion into a sequence sorted by descending winnings; equal keys keep
\* their order (Array.prototype.sort is stable)
RECURSIVE InsertDesc(_, _)
InsertDesc(s, x) ==
    IF s = <<>> THEN <<x>>
    ELSE IF x.winnings.units > s[Len(s)].winnings.units
    THEN Append(InsertDesc(SubSeq(s, 1, Len(s) - 1), x), s[Len(s)])
    ELSE Append(s, x)

\* a sort that leaves the array as it is
SortDescUnsorted(s) == s

\* .sort((a, b) => b.winnings - a.winnings)
RECURSIVE SortDesc(_)
SortDesc(s) ==
    IF s = <<>> THEN <<>>
    ELSE InsertDesc(SortDesc(SubSeq(s, 1, Len(s) - 1)), s[Len(s)])

\* .slice(0, 10)
Take(s, n) == SubSeq(s, 1, Min(n, Len(s)))

\* the entry of a winner (lines 992-1001): the name of the first user of the
\* address, else the truncated address
Entry(w, users) ==
    [address |-> w.address,
     winnings |-> w.winnings,
     voteCount |-> w.voteCount,
     username |-> IF w.address \in users THEN "farcaster" ELSE "truncated"]

\* only the winners with an identity get an entry
EnrichKnownOnly(ws, users) ==
    LET known == SelectSeqBy(ws, {ws[i] : i \in {j \in 1 .. Len(ws) :
                                     ws[j].address \in users}})
    IN  [i \in 1 .. Len(known) |-> Entry(known[i], users)]

\* winners.map((winner) => ...), lines 985-1002
Enrich(ws, users) == [i \in 1 .. Len(ws) |-> Entry(ws[i], users)]

\* the leaderboard entries of the winners, sorted and cut
BuildLeaderboard(ws, users) == Take(SortDesc(Enrich(ws, users)), TopN)

LResponse(code, src, body) == [status |-> code, source |-> src, body |-> body]

\* ------------------------------------------------------------------------
\* GET: Init
\* ------------------------------------------------------------------------
LedgerInit(maxV1, maxV2) ==
    /\ v1Participants \in SeqsUpTo(Addrs, maxV1)
    /\ v2Participants \in SeqsUpTo(Addrs, maxV2)
    /\ v1Stats \in [WalletIds -> Stats]
    /\ v2Portfolio \in [WalletIds -> Stats]
    \* the stats of a wallet that is in no list are never read
    /\ \A w \in WalletIds \ ListedIds(v1Participants) : v1Stats[w] = ZeroStats
    /\ \A w \in WalletIds \ ListedIds(v2Participants) : v2Portfolio[w] = ZeroStats
    /\ NEYNAR_API_KEY \in BOOLEAN

\* the ledger of the behaviours that only run POST
LedgerEmpty ==
    /\ v1Participants = <<>>
    /\ v2Participants = <<>>
    /\ v1Stats = [w \in WalletIds |-> ZeroStats]
    /\ v2Portfolio = [w \in WalletIds |-> ZeroStats]
    /\ NEYNAR_API_KEY = TRUE

\* a request that has not started
IdleRequest ==
    [lpc |-> "idle", tokenDecimals |-> 0, totalParticipantsV1 |-> 0,
     start |-> 0, entriesV1 |-> <<>>, v2ParticipantIndex |-> 0,
     batchPromises |-> <<>>, batchResults |-> <<>>, bpos |-> 0,
     entriesV2 |-> <<>>, combinedEntries |-> <<>>, winners |-> <<>>,
     addressesToFetch |-> <<>>, addressToUsersMap |-> {}, chunk |-> 0,
     newUsersMap |-> {}, lresponse |-> LResponse(0, "none", <<>>),
     v2Absent |-> {}, portfolioFetched |-> {}, portfolioFailed |-> {},
     v1Pages |-> <<>>]

\* position, locals and history of the running request
RunningRequest ==
    [lpc |-> lpc, tokenDecimals |-> tokenDecimals,
     totalParticipantsV1 |-> totalParticipantsV1,
     start |-> start, entriesV1 |-> entriesV1,
     v2ParticipantIndex |-> v2ParticipantIndex,
     batchPromises |-> batchPromises, batchResults |-> batchResults,
     bpos |-> bpos, entriesV2 |-> entriesV2,
     combinedEntries |-> combinedEntries, winners |-> winners,
     addressesToFetch |-> addressesToFetch,
     addressToUsersMap |-> addressToUsersMap, chunk |-> chunk,
     newUsersMap |-> newUsersMap, lresponse |-> lresponse,
     v2Absent |-> v2Absent, portfolioFetched |-> portfolioFetched,
     portfolioFailed |-> portfolioFailed, v1Pages |-> v1Pages]

LIdle(n) ==
    /\ cacheLeaderboard = AbsentEntry(<<>>)
    /\ cacheNeynar = AbsentEntry({})
    /\ lpc = "idle"
    /\ requestsLeft = n
    /\ tokenDecimals = 0
    /\ totalParticipantsV1 = 0
    /\ start = 0
    /\ entriesV1 = <<>>
    /\ v2ParticipantIndex = 0
    /\ batchPromises = <<>>
    /\ batchResults = <<>>
    /\ bpos = 0
    /\ entriesV2 = <<>>
    /\ combinedEntries = <<>>
    /\ winners = <<>>
    /\ addressesToFetch = <<>>
    /\ addressToUsersMap = {}
    /\ chunk = 0
    /\ newUsersMap = {}
    /\ lresponse = LResponse(0, "none", <<>>)
    /\ lastCached = AbsentEntry(<<>>)
    /\ v2Absent = {}
    /\ portfolioFetched = {}
    /\ portfolioFailed = {}
    /\ v1Pages = <<>>
    /\ parked = IdleRequest

LInit == LedgerInit(MaxV1, MaxV2) /\ LIdle(LBRequests)

CacheLInit == LedgerInit(CacheMaxList, CacheMaxList) /\ LIdle(MaxRequests)

\* ------------------------------------------------------------------------
\* GET: transitions shared by several steps
\* ------------------------------------------------------------------------

\* the request is answered; the handler's locals stay as they are until the
\* next request starts
Answer(resp) ==
    /\ lpc' = "idle"
    /\ lresponse' = resp

\* the response of the catch branch
CatchResponseAlwaysError(entry) == LResponse(500, "error", <<>>)

\* lines 1022-1040: the cached list when there is one, else the error
CatchResponse(entry) ==
    IF CacheHit(entry)
    THEN LResponse(200, "stale", entry.value)
    ELSE LResponse(500, "error", <<>>)

\* the catch branch of GET (lines 1019-1041)
CatchBranch ==
    /\ cacheLeaderboard' = AfterGet(cacheLeaderboard, <<>>)
    /\ Answer(CatchResponse(cacheLeaderboard))

\* lines 984-1018: build, sort, cut, cache and return the leaderboard
Finalize(ws, users) ==
    LET leaderboard == BuildLeaderboard(ws, users) IN
    /\ cacheLeaderboard' = FreshEntry(leaderboard)
    /\ lastCached' = FreshEntry(leaderboard)
    /\ Answer(LResponse(200, "refresh", leaderboard))

\* lines 915-982 up to the first await: merge, winners, identity cache read
FinishV2(e2) ==
    LET combined == Merge(entriesV1, e2)
        ws       == Winners(combined, tokenDecimals)
        known    == IF CacheHit(cacheNeynar) THEN cacheNeynar.value ELSE {}
        toFetch  == AddressesToFetch(ws, known)
    IN  /\ combinedEntries' = combined
        /\ winners' = ws
        /\ addressesToFetch' = toFetch
        /\ addressToUsersMap' = known
        /\ chunk' = 0
        /\ newUsersMap' = {}
        /\ IF Len(toFetch) > 0
           THEN /\ lpc' = "neynar"
                /\ cacheNeynar' = AfterGet(cacheNeynar, {})
                /\ UNCHANGED <<cacheLeaderboard, lastCached, lresponse>>
           ELSE /\ cacheNeynar' = AfterGet(cacheNeynar, {})
                /\ Finalize(ws, known)

\* an enumeration without the safety limit
BelowLimitAlways(i) == TRUE

\* while (hasMoreParticipants && v2ParticipantIndex < 10000)
BelowLimit(i) == i < V2Limit

\* the for-of loop over batchResults stands at a participant address
ScanContinues(batch, k) == k <= Len(batch) /\ batch[k] # Null

\* the for-of loop over batchResults at position k, after the batch's reads
\* (lines 864-907)
ScanBatch(ps, batch, k, e2, from) ==
    IF ScanContinues(batch, k)
    THEN \* the portfolio read of this participant is awaited
         /\ lpc' = "v2Portfolio"
         /\ bpos' = k
         /\ entriesV2' = e2
         /\ batchPromises' = ps
         /\ batchResults' = batch
         /\ v2ParticipantIndex' = from
         /\ UNCHANGED <<cacheVars, mergeVars, neynarVars, lresponse, lastCached>>
    ELSE LET more == k > Len(batch)   \* no null met: hasMoreParticipants
         IN  /\ bpos' = 0
             /\ entriesV2' = e2
             /\ batchPromises' = <<>>
             /\ batchResults' = <<>>
             /\ v2ParticipantIndex' = from + PAGE_SIZE
             /\ IF more /\ BelowLimit(from + PAGE_SIZE)
                THEN /\ lpc' = "v2Batch"
                     /\ UNCHANGED <<cacheVars, mergeVars, neynarVars,
                                    lresponse, lastCached>>
                ELSE FinishV2(e2)

\* ------------------------------------------------------------------------
\* GET: the steps
\* ------------------------------------------------------------------------

\* GET lines 750-776: cache lookup, then the credential check
GetStart ==
    /\ lpc = "idle"
    /\ requestsLeft > 0
    /\ requestsLeft' = requestsLeft - 1
    /\ tokenDecimals' = 0
    /\ totalParticipantsV1' = 0
    /\ start' = 0
    /\ entriesV1' = <<>>
    /\ v2ParticipantIndex' = 0
    /\ batchPromises' = <<>>
    /\ batchResults' = <<>>
    /\ bpos' = 0
    /\ entriesV2' = <<>>
    /\ combinedEntries' = <<>>
    /\ winners' = <<>>
    /\ addressesToFetch' = <<>>
    /\ addressToUsersMap' = {}
    /\ chunk' = 0
    /\ newUsersMap' = {}
    /\ v2Absent' = {}
    /\ portfolioFetched' = {}
    /\ portfolioFailed' = {}
    /\ v1Pages' = <<>>
    /\ cacheLeaderboard' = AfterGet(cacheLeaderboard, <<>>)
    /\ IF CacheHit(cacheLeaderboard)
       THEN Answer(LResponse(200, "cache", cacheLeaderboard.value))
       ELSE LET neynarApiKey == NEYNAR_API_KEY IN
            IF MissingKey(neynarApiKey)
            THEN Answer(LResponse(500, "config", <<>>))
            ELSE /\ lpc' = "decimals"
                 /\ lresponse' = LResponse(0, "none", <<>>)
    /\ UNCHANGED <<ledgerVars, cacheNeynar, lastCached>>
    /\ UNCHANGED <<wvars, rvars, parked>>

\* GET lines 778-789: token decimals
GetDecimals ==
    /\ lpc = "decimals"
    /\ \E ok \in BOOLEAN :
         IF ok
         THEN /\ \E d \in DecimalsValues : tokenDecimals' = d
              /\ lpc' = "v1Count"
              /\ UNCHANGED <<cacheVars, lresponse>>
         ELSE /\ CatchBranch
              /\ UNCHANGED <<tokenDecimals, cacheNeynar>>
    /\ UNCHANGED <<ledgerVars, requestsLeft, totalParticipantsV1, start, entriesV1,
                   v1Pages, v2Vars, v2Hist, mergeVars, neynarVars, lastCached>>
    /\ UNCHANGED <<wvars, rvars, parked>>

\* GET lines 794-800: getAllParticipantsCount of V1
GetV1Count ==
    /\ lpc = "v1Count"
    /\ \E ok \in BOOLEAN :
         IF ok
         THEN /\ totalParticipantsV1' = Len(v1Participants)
              /\ lpc' = IF MorePages(0, Len(v1Participants))
                        THEN "v1Page" ELSE "v2Batch"
              /\ UNCHANGED <<cacheVars, lresponse>>
         ELSE /\ CatchBranch
              /\ UNCHANGED <<totalParticipantsV1, cacheNeynar>>
    /\ UNCHANGED <<ledgerVars, requestsLeft, tokenDecimals, start, entriesV1,
                   v1Pages, v2Vars, v2Hist, mergeVars, neynarVars, lastCached>>
    /\ UNCHANGED <<wvars, rvars, parked>>

\* GET lines 807-825: one page of the V1 leaderboard
GetV1Page ==
    /\ lpc = "v1Page"
    /\ \E ok \in BOOLEAN :
         IF ok
         THEN /\ entriesV1' = entriesV1 \o V1Page(start)
              /\ v1Pages' = Append(v1Pages, [offset |-> start,
                                             returned |-> Len(V1Page(start))])
              /\ start' = start + PAGE_SIZE
              /\ lpc' = IF MorePages(start + PAGE_SIZE, totalParticipantsV1)
                        THEN "v1Page" ELSE "v2Batch"
              /\ UNCHANGED <<cacheVars, lresponse>>
         ELSE /\ CatchBranch
              /\ UNCHANGED <<entriesV1, start, v1Pages, cacheNeynar>>
    /\ UNCHANGED <<ledgerVars, requestsLeft, tokenDecimals, totalParticipantsV1,
                   v2Vars, v2Hist, mergeVars, neynarVars, lastCached>>
    /\ UNCHANGED <<wvars, rvars, parked>>

\* GET lines 842-859: the PAGE_SIZE reads of a batch are issued together
GetV2Batch ==
    /\ lpc = "v2Batch"
    /\ lpc' = "v2Await"
    /\ batchPromises' = [k \in 1 .. PAGE_SIZE |-> PendingRead]
    /\ UNCHANGED <<ledgerVars, cacheVars, requestsLeft, v1Vars, v2ParticipantIndex,
                   batchResults, bpos, entriesV2, v2Hist, mergeVars, neynarVars,
                   lresponse, lastCached>>
    /\ UNCHANGED <<wvars, rvars, parked>>

\* one read of the batch settles, in any order; a read past the end of
\* allParticipants, or one that still fails after its retries, gives null;
\* when the last one settles Promise.all resolves (line 861) and the batch
\* is scanned
GetV2Read ==
    /\ lpc = "v2Await"
    /\ \E k \in 1 .. PAGE_SIZE : \E ok \in BOOLEAN :
         LET i == v2ParticipantIndex + k - 1
             stored == i < Len(v2Participants)
             settledSoFar == Cardinality({j \in 1 .. PAGE_SIZE :
                                            batchPromises[j].settled})
             ps == [batchPromises EXCEPT ![k] =
                      [settled |-> TRUE,
                       value |-> IF ok THEN v2Participants[i + 1] ELSE Null,
                       seq |-> settledSoFar + 1]]
         IN  /\ ~batchPromises[k].settled
             /\ ok => stored
             /\ v2Absent' = IF stored /\ ~ok THEN v2Absent \cup {i} ELSE v2Absent
             /\ IF \A j \in 1 .. PAGE_SIZE : ps[j].settled
                THEN ScanBatch(ps, PromiseAll(ps), 1, entriesV2,
                               v2ParticipantIndex)
                ELSE /\ batchPromises' = ps
                     /\ UNCHANGED <<lpc, v2ParticipantIndex, batchResults, bpos,
                                    entriesV2, cacheVars, mergeVars, neynarVars,
                                    lresponse, lastCached>>
    /\ UNCHANGED <<ledgerVars, requestsLeft, v1Vars, portfolioFetched,
                   portfolioFailed>>
    /\ UNCHANGED <<wvars, rvars, parked>>

\* GET lines 871-899: the portfolio of one participant of the batch
GetV2Portfolio ==
    /\ lpc = "v2Portfolio"
    /\ LET participantAddress == batchResults[bpos]
           i == v2ParticipantIndex + bpos - 1
           portfolio == v2Portfolio[participantAddress.id]
       IN  /\ portfolioFetched' = portfolioFetched \cup {i}
           /\ \E ok \in BOOLEAN :
                /\ portfolioFailed' =
                     IF ok THEN portfolioFailed ELSE portfolioFailed \cup {i}
                /\ ScanBatch(batchPromises, batchResults, bpos + 1,
                     IF ok /\ portfolio.totalWinnings > 0
                     THEN Append(entriesV2,
                                 [user |-> participantAddress,
                                  totalWinnings |-> portfolio.totalWinnings,
                                  voteCount |-> portfolio.voteCount])
                     ELSE entriesV2,
                     v2ParticipantIndex)
    /\ UNCHANGED <<ledgerVars, requestsLeft, v1Vars, v2Absent>>
    /\ UNCHANGED <<wvars, rvars, parked>>

\* batchFetchNeynarUsers: one chunk of addresses; then lines 975-1018
GetNeynarChunk ==
    /\ lpc = "neynar"
    /\ LET batch == SubSeq(addressesToFetch, chunk + 1,
                           Min(chunk + NeynarBatch, Len(addressesToFetch)))
           asked == {batch[i] : i \in 1 .. Len(batch)}
       IN  \E ok \in BOOLEAN : \E found \in SUBSET asked :
             /\ ok \/ found = {}
             /\ LET result == newUsersMap \cup found IN
                IF chunk + NeynarBatch < Len(addressesToFetch)
                THEN /\ chunk' = chunk + NeynarBatch
                     /\ newUsersMap' = result
                     /\ UNCHANGED <<lpc, lresponse, cacheVars, lastCached,
                                    addressToUsersMap>>
                ELSE /\ chunk' = 0
                     /\ newUsersMap' = result
                     /\ addressToUsersMap' = addressToUsersMap \cup result
                     /\ cacheNeynar' = FreshEntry(addressToUsersMap \cup result)
                     /\ Finalize(winners, addressToUsersMap \cup result)
    /\ UNCHANGED <<ledgerVars, requestsLeft, v1Vars, v2Vars, v2Hist, mergeVars,
                   addressesToFetch>>
    /\ UNCHANGED <<wvars, rvars, parked>>

\* the 1-hour TTL of the leaderboard entry runs out
ExpireLeaderboard ==
    /\ cacheLeaderboard.state = "fresh"
    /\ cacheLeaderboard' = [cacheLeaderboard EXCEPT !.state = "expired"]
    /\ UNCHANGED <<ledgerVars, cacheNeynar, lpc, requestsLeft, v1Vars, v2Vars,
                   v2Hist, mergeVars, neynarVars, lresponse, lastCached>>
    /\ UNCHANGED <<wvars, rvars, parked>>

\* the 1-day TTL of the identity entry runs out
ExpireNeynar ==
    /\ cacheNeynar.state = "fresh"
    /\ cacheNeynar' = [cacheNeynar EXCEPT !.state = "expired"]
    /\ UNCHANGED <<ledgerVars, cacheLeaderboard, lpc, requestsLeft, v1Vars, v2Vars,
                   v2Hist, mergeVars, neynarVars, lresponse, lastCached>>
    /\ UNCHANGED <<wvars, rvars, parked>>

\* the running request is suspended at its await (or has returned) and the
\* event loop runs the other request
Yield ==
    /\ parked # RunningRequest
    /\ parked' = RunningRequest
    /\ lpc' = parked.lpc
    /\ tokenDecimals' = parked.tokenDecimals
    /\ totalParticipantsV1' = parked.totalParticipantsV1
    /\ start' = parked.start
    /\ entriesV1' = parked.entriesV1
    /\ v2ParticipantIndex' = parked.v2ParticipantIndex
    /\ batchPromises' = parked.batchPromises
    /\ batchResults' = parked.batchResults
    /\ bpos' = parked.bpos
    /\ entriesV2' = parked.entriesV2
    /\ combinedEntries' = parked.combinedEntries
    /\ winners' = parked.winners
    /\ addressesToFetch' = parked.addressesToFetch
    /\ addressToUsersMap' = parked.addressToUsersMap
    /\ chunk' = parked.chunk
    /\ newUsersMap' = parked.newUsersMap
    /\ lresponse' = parked.lresponse
    /\ v2Absent' = parked.v2Absent
    /\ portfolioFetched' = parked.portfolioFetched
    /\ portfolioFailed' = parked.portfolioFailed
    /\ v1Pages' = parked.v1Pages
    /\ UNCHANGED <<ledgerVars, cacheVars, requestsLeft, lastCached>>
    /\ UNCHANGED <<wvars, rvars>>

LNext ==
    \/ GetStart
    \/ GetDecimals
    \/ GetV1Count
    \/ GetV1Page
    \/ GetV2Batch
    \/ GetV2Read
    \/ GetV2Portfolio
    \/ GetNeynarChunk
    \/ ExpireLeaderboard
    \/ ExpireNeynar

\* ------------------------------------------------------------------------
\* withRetry
\* ------------------------------------------------------------------------

\* error?.status === 429
RateLimited == 429

\* the status of a failure that is not a rate limit (0: an error without one)
ErrorStatuses == {0, 429, 500}

\* what an invocation of fn resolves to
RetryValues == {1, 2}

\* outcomes of await fn()
FnOutcomes ==
    [ok : {TRUE}, value : RetryValues, status : {0}]
        \cup [ok : {FALSE}, value : {0}, status : ErrorStatuses]

Max(a, b) == IF a > b THEN a ELSE b

\* a wrapper that never rethrows inside the loop
LastAttemptNever(k, n) == FALSE

\* if (i === retries - 1) throw error
LastAttempt(k, n) == k = n - 1

\* the delay without the rate-limit floor
DelayNoFloor(base, k, status) == base * 2 ^ k

\* let delay = baseDelay * Math.pow(2, i); a 429 raises it to Math.max(delay, 10000)
Delay(base, k, status) ==
    IF status = RateLimited THEN Max(base * 2 ^ k, RateLimitFloor)
    ELSE base * 2 ^ k

NoResult == [kind |-> "none", value |-> 0, status |-> 0, thrownBy |-> 0]

Returned(v) == [kind |-> "value", value |-> v, status |-> 0, thrownBy |-> 0]

\* the error object thrown by invocation number k of fn
Thrown(status, k) == [kind |-> "error", value |-> 0, status |-> status,
                      thrownBy |-> k]

\* throw new Error("Max retries reached")
MaxRetriesReached == [kind |-> "generic", value |-> 0, status |-> 0,
                      thrownBy |-> 0]

RIdle ==
    /\ rpc = "idle"
    /\ retries = 0
    /\ baseDelay = 0
    /\ retryI = 0
    /\ retryResult = NoResult
    /\ calls = <<>>
    /\ delays = <<>>

\* the for loop is entered at i = k, or left when k is not below retries
RetryLoop(k, n) ==
    /\ retryI' = k
    /\ IF k < n
       THEN /\ rpc' = "calling"
            /\ retryResult' = NoResult
       ELSE /\ rpc' = "thrown"
            /\ retryResult' = MaxRetriesReached

\* withRetry(fn, retries, baseDelay) is called
RetryCall ==
    /\ rpc = "idle"
    /\ \E n \in 0 .. MaxRetries : \E b \in 1 .. MaxBaseDelay :
         /\ retries' = n
         /\ baseDelay' = b
         /\ RetryLoop(0, n)
    /\ UNCHANGED <<calls, delays>>
    /\ UNCHANGED <<wvars, lvars>>

\* one iteration of the loop: await fn(), and the catch up to the timer
RetryInvoke ==
    /\ rpc = "calling"
    /\ \E r \in FnOutcomes :
         /\ calls' = Append(calls, r)
         /\ IF r.ok
            THEN /\ rpc' = "returned"
                 /\ retryResult' = Returned(r.value)
                 /\ UNCHANGED delays
            ELSE IF LastAttempt(retryI, retries)
            THEN /\ rpc' = "thrown"
                 /\ retryResult' = Thrown(r.status, Len(calls) + 1)
                 /\ UNCHANGED delays
            ELSE /\ rpc' = "sleeping"
                 /\ delays' = Append(delays, Delay(baseDelay, retryI, r.status))
                 /\ UNCHANGED retryResult
    /\ UNCHANGED <<retries, baseDelay, retryI>>
    /\ UNCHANGED <<wvars, lvars>>

\* the timer fires: the loop goes on with i + 1
RetryWake ==
    /\ rpc = "sleeping"
    /\ RetryLoop(retryI + 1, retries)
    /\ UNCHANGED <<retries, baseDelay, calls, delays>>
    /\ UNCHANGED <<wvars, lvars>>

RNext ==
    \/ RetryCall
    \/ RetryInvoke
    \/ RetryWake

\* POST runs against a quiet leaderboard route
Init == WInit /\ mode = "single" /\ LedgerEmpty /\ LIdle(0) /\ RIdle

Next == WNext

Spec == Init /\ [][Next]_vars

LBInit == LInit /\ WInit /\ mode = "single" /\ RIdle

LBSpec == LBInit /\ [][LNext]_vars

CacheInit == CacheLInit /\ WInit /\ mode = "single" /\ RIdle

\* the same route, several requests in a row against a small ledger
CacheSpec == CacheInit /\ [][LNext]_vars

PagingInit ==
    /\ LedgerInit(PagingMaxV1, PagingMaxV2)
    /\ LIdle(LBRequests)
    /\ WInit /\ mode = "single"
    /\ RIdle

\* the same route against a V1 ledger of more than one page
PagingSpec == PagingInit /\ [][LNext]_vars

\* the POST route after a request without userAddress has been answered
WAnswered ==
    /\ pc = "done"
    /\ response = ErrResponse(400)
    /\ index = 0
    /\ trades = <<>>
    /\ participatedMarkets = <<>>
    /\ markets = <<>>
    /\ mCount = 0
    /\ marketId = 0
    /\ option = 0
    /\ optionCount = 0
    /\ payoutPerShare = DefaultPayout
    /\ vpos = 0
    /\ winningOptionId = 0
    /\ sharesBI = 0
    /\ results = <<>>
    /\ tradesDone = FALSE
    /\ tradesResult = <<>>
    /\ tradeIdCount = 0
    /\ fallbackStarted = FALSE
    /\ fallbackReads = 0
    /\ payoutObs = "none"
    /\ obs = [m \in MarketIds |-> NoObs]
    /\ tradeLog = <<>>
    /\ fbHead = NoFbHead
    /\ fbObs = [m \in MarketIds |-> NoFbObs]
    /\ mode = "single"
    /\ readLog = <<>>
    /\ replayPos = 0
    /\ firstResponse = NoResponse

\* the indices read when no read gives null: whole batches up to the limit
ReadLimit == ((V2Limit + PAGE_SIZE - 1) \div PAGE_SIZE) * PAGE_SIZE

LimitIds == 1 .. ReadLimit

\* a V2 ledger that stores up to as many participants as the enumeration
\* can read, none of them with winnings; one V1 participant with winnings
LimitLedger ==
    /\ v1Participants = <<[id |-> 1, upper |-> FALSE]>>
    /\ v1Stats = [w \in LimitIds |-> [totalWinnings |-> 1, voteCount |-> 1]]
    /\ v2Participants \in {[i \in 1 .. n |-> [id |-> i, upper |-> FALSE]] :
                              n \in 0 .. ReadLimit}
    /\ v2Portfolio = [w \in LimitIds |-> ZeroStats]
    /\ NEYNAR_API_KEY \in BOOLEAN

\* either a POST request is to come, or a leaderboard request is
BoundedInit ==
    \/ Init
    \/ WAnswered /\ LimitLedger /\ LIdle(LBRequests) /\ RIdle

BoundedNext ==
    \/ PostBadBody
    \/ PostNoAddress
    \/ PostStart
    \/ ReadTrade
    \/ FallbackCount
    \/ FallbackPayout
    \/ FallbackBasic
    \/ FallbackShares
    \/ VerifyPayout
    \/ VerifyBasic
    \/ VerifyExt
    \/ VerifyShares
    \/ VerifySim
    \/ GetStart
    \/ GetDecimals
    \/ GetV1Count
    \/ GetV1Page
    \/ GetV2Batch
    \/ GetV2Read
    \/ GetV2Portfolio
    \/ GetNeynarChunk
    \/ ExpireLeaderboard
    \/ ExpireNeynar

\* the steps of a leaderboard request
GetSteps ==
    \/ GetStart
    \/ GetDecimals
    \/ GetV1Count
    \/ GetV1Page
    \/ GetV2Batch
    \/ GetV2Read
    \/ GetV2Portfolio
    \/ GetNeynarChunk

\* every awaited read returns or throws, and the handler then goes on
BoundedSpec ==
    /\ BoundedInit
    /\ [][BoundedNext]_vars
    /\ WF_vars(WNext)
    /\ WF_vars(GetSteps)

ConcNext ==
    \/ GetStart
    \/ GetDecimals
    \/ GetV1Count
    \/ GetV1Page
    \/ GetV2Batch
    \/ GetV2Read
    \/ GetV2Portfolio
    \/ GetNeynarChunk
    \/ Yield

\* two requests in flight together within the TTLs, against a small ledger
ConcSpec == CacheInit /\ [][ConcNext]_vars

RankIds == 1 .. RankWallets

\* every wallet is a V1 participant, under its lower-case address
RankInit ==
    /\ v1Participants = [i \in RankIds |-> [id |-> i, upper |-> FALSE]]
    /\ v1Stats \in [RankIds -> Stats]
    /\ v2Participants \in SeqsUpTo([id : RankIds, upper : {FALSE}], RankMaxV2)
    /\ v2Portfolio \in [RankIds -> Stats]
    /\ \A w \in RankIds \ ListedIds(v2Participants) : v2Portfolio[w] = ZeroStats
    /\ NEYNAR_API_KEY \in BOOLEAN
    /\ LIdle(LBRequests)
    /\ WInit /\ mode = "single"
    /\ RIdle

\* the same route against a ledger with more winners than the cut keeps
RankSpec == RankInit /\ [][LNext]_vars

DiscoveryInit ==
    WInit /\ mode = "discovery" /\ LedgerEmpty /\ LIdle(0) /\ RIdle

DiscoveryNext ==
    \/ PostBadBody
    \/ PostNoAddress
    \/ PostStart
    \/ ReadTrade
    \/ FallbackCount
    \/ FallbackPayout
    \/ FallbackBasic
    \/ FallbackShares

\* a POST request up to the call of computeClaimableWinnings, with the
\* history of what discovery read
DiscoverySpec == DiscoveryInit /\ [][DiscoveryNext]_vars

TwiceInit == WInit /\ mode = "record" /\ LedgerEmpty /\ LIdle(0) /\ RIdle

TwiceNext ==
    \/ PostBadBody
    \/ PostNoAddress
    \/ PostStart
    \/ ReadTrade
    \/ FallbackCount
    \/ FallbackPayout
    \/ FallbackBasic
    \/ FallbackShares
    \/ VerifyPayout
    \/ VerifyBasic
    \/ VerifyExt
    \/ VerifyShares
    \/ VerifySim
    \/ PostAgain

\* the same POST request twice in a row, the second one reading what the
\* first one read
TwiceSpec == TwiceInit /\ [][TwiceNext]_vars

\* one call of withRetry, with every choice of its arguments
RetrySpec == Init /\ [][RNext]_vars

\* ------------------------------------------------------------------------
\* Properties of POST (claimable winnings)
\* ------------------------------------------------------------------------

Answered == pc = "done" /\ response.status = 200

Candidates == {participatedMarkets[i] : i \in 1 .. Len(participatedMarkets)}

WinningMarkets(res) == {res[i].marketId : i \in 1 .. Len(res)}

RecordsOf(m, res) == {i \in 1 .. Len(res) : res[i].marketId = m}

\* the market had a fault in one of its three reads of computeClaimableWinnings
Faulted(m) ==
    \/ obs[m].basic = "fault"
    \/ obs[m].ext = "fault"
    \/ obs[m].shares = "fault"

\* the reads of the market passed every test up to the simulated claim
PassedReads(m) ==
    /\ obs[m].basic = "read" /\ obs[m].resolved /\ ~obs[m].invalidated
    /\ obs[m].ext = "read" /\ ~obs[m].disputed
    /\ obs[m].shares = "read" /\ obs[m].s > 0

\* C1: every record of winnings is for a market that this request read as
\* resolved, not invalidated, not disputed, with a nonzero balance of the
\* winning option and a successful simulated claim; a market read as
\* unresolved is never in winnings.
C1_WinningsOnlyVerified ==
    \A i \in 1 .. Len(response.winningsData) :
        LET m == response.winningsData[i].marketId IN
        /\ PassedReads(m)
        /\ obs[m].sim = "ok"

C1_Witness ==
    /\ Answered
    /\ Len(response.winningsData) > 0
    /\ \E m \in Candidates :
         /\ obs[m].basic = "read" /\ ~obs[m].resolved
         /\ m \notin WinningMarkets(response.winningsData)

\* C6: the fallback scan is started exactly when the primary strategy
\* returned no market, and when the primary strategy returned a market no
\* read of the fallback scan is issued.
C6_FallbackIffPrimaryEmpty ==
    /\ fallbackStarted <=> (tradesDone /\ tradesResult = <<>>)
    /\ (~fallbackStarted) => fallbackReads = 0

C6_Witness ==
    /\ Answered
    /\ tradesResult # <<>>
    /\ ~fallbackStarted
    /\ fallbackReads = 0

\* C7: participatedMarkets of a successful response is strictly ascending
\* (hence without duplicates), on the primary and on the fallback path.
C7_ParticipatedAscending ==
    response.status = 200 =>
        \A i \in 1 .. Len(response.participatedMarkets) - 1 :
            response.participatedMarkets[i] < response.participatedMarkets[i + 1]

\* three usable trade entries, two distinct markets: a duplicate was removed
C7_Witness ==
    /\ Answered
    /\ tradeIdCount = 3
    /\ response.participatedMarkets = <<0, 2>>

C11_SecondCallIdentical ==
    mode = "replay"
        => IF pc = "done"
           THEN /\ replayPos = Len(readLog)
                /\ response = firstResponse
           ELSE /\ replayPos < Len(readLog)
                /\ readLog[replayPos + 1].fn = NextRead.fn
                /\ readLog[replayPos + 1].a = NextRead.a
                /\ readLog[replayPos + 1].b = NextRead.b

\* the second request has returned two records, as the first one did
C11_Witness ==
    /\ mode = "replay"
    /\ pc = "done"
    /\ firstResponse.status = 200
    /\ Len(firstResponse.winningsData) = 2
    /\ firstResponse.winningsData[1].marketId < firstResponse.winningsData[2].marketId
    /\ response = firstResponse

\* ------------------------------------------------------------------------
\* Properties of POST: discovery
\* ------------------------------------------------------------------------

\* discovery has returned: computeClaimableWinnings is about to read, or has
\* returned at once for an empty list and the request is answered
DiscoveryDone == tradesDone /\ pc \in {"vPayout", "done"} /\ payoutObs = "none"

\* no read of userTradeHistory returned an entry
NoTradeEntry == \A k \in 1 .. Len(tradeLog) : tradeLog[k].kind # "entry"

\* no balance read of the fallback scan was nonzero
NoBalanceSeen == \A m \in MarketIds : fbObs[m].nonzero = -1

\* the market handles the fallback scan examines
Scanned == {m \in MarketIds : m < Min(fbHead.n, ScanCap)}

\* every read the fallback scan issued came back with a value
AllFallbackReadsOk ==
    /\ fbHead.count = "read"
    /\ fbHead.n > 0 => fbHead.payout = "read"
    /\ \A m \in Scanned : fbObs[m].basic = "read" /\ ~fbObs[m].fault

\* the market ids of the entries read before position n of the log
LoggedIds(n) ==
    {tradeLog[k].marketId : k \in {j \in 1 .. n : /\ tradeLog[j].kind = "entry"
                                                  /\ tradeLog[j].marketId # NaN}}

\* C12: a wallet for which no trade-history read returned an entry and no
\* balance read of the fallback scan was nonzero gets a successful response
\* with an empty participatedMarkets and an empty winnings list.
C12_NoActivityGivesEmptyAnswer ==
    (DiscoveryDone /\ fallbackStarted /\ NoTradeEntry /\ NoBalanceSeen)
        => /\ pc = "done"
           /\ response = OkResponse(<<>>, <<>>)

\* index 0 has no entry; two markets scanned, every option balance zero
C12_Witness ==
    /\ DiscoveryDone
    /\ tradeLog = <<[index |-> 0, kind |-> "empty", marketId |-> NaN]>>
    /\ fbHead.count = "read" /\ fbHead.n >= 2
    /\ fbObs[0].reads = 2 /\ fbObs[0].nonzero = -1
    /\ fbObs[1].reads >= 1 /\ fbObs[1].nonzero = -1
    /\ response = OkResponse(<<>>, <<>>)

C14_FallbackResolvedOnly ==
    (DiscoveryDone /\ fallbackStarted)
        => \A m \in Candidates : fbObs[m].resolved

\* C17: the trade-history reads are issued for the indices 0, 1, 2, ... in
\* order, every read but the last returned an entry, no read follows a read
\* that failed or returned empty, and no index at or past the cap is read.
C17_TradeReadsSequential ==
    /\ \A k \in 1 .. Len(tradeLog) :
         /\ tradeLog[k].index = k - 1
         /\ tradeLog[k].index < maxAttempts
    /\ \A k \in 1 .. (Len(tradeLog) - 1) : tradeLog[k].kind = "entry"
    /\ pc = "trades"
         => /\ \A k \in 1 .. Len(tradeLog) : tradeLog[k].kind = "entry"
            /\ index = Len(tradeLog)
            /\ Len(trades) = Len(tradeLog)

\* the cap is reached: every index below it was read and returned an entry
C17_Witness ==
    /\ DiscoveryDone
    /\ Len(tradeLog) = maxAttempts
    /\ \A k \in 1 .. Len(tradeLog) : tradeLog[k].kind = "entry"
    /\ Len(participatedMarkets) >= 2

\* C18: when the trade-history read at index i fails, discovery returns the
\* markets of the entries 0 .. i-1, no error is raised, and the request goes
\* on with the fallback decision and with verification.
C18_TradeFaultEndsSequence ==
    (/\ tradesDone
     /\ tradeLog # <<>>
     /\ tradeLog[Len(tradeLog)].kind = "fault")
        => LET ids == LoggedIds(Len(tradeLog) - 1) IN
           /\ {tradesResult[i] : i \in 1 .. Len(tradesResult)} = ids
           /\ Len(tradesResult) = Cardinality(ids)
           /\ fallbackStarted <=> ids = {}
           /\ pc \in {"fbCount", "fbPayout", "fbBasic", "fbShares",
                      "vPayout", "done"}
           /\ response.status = IF pc = "done" THEN 200 ELSE 0

\* two entries, then the read of index 2 fails; verification is about to start
C18_Witness ==
    /\ pc = "vPayout"
    /\ Len(tradeLog) = 3
    /\ tradeLog[3].kind = "fault"
    /\ tradeLog[1].marketId = 1 /\ tradeLog[2].marketId = 0
    /\ participatedMarkets = <<0, 1>>


\* C29: the markets the fallback scan returns do not depend on its
\* PAYOUT_PER_SHARE read: whether that read succeeds or fails, every market
\* below the cap is examined, and with every other read successful the scan
\* returns the markets for which a balance read was nonzero.
C29_ScanIndependentOfPayoutRead ==
    (DiscoveryDone /\ fallbackStarted /\ fbHead.count = "read" /\ fbHead.n > 0)
        => /\ fbHead.payout \in {"read", "fault"}
           /\ \A m \in Scanned : fbObs[m].basic # "none"
           /\ (\A m \in Scanned : fbObs[m].basic = "read" /\ ~fbObs[m].fault)
                => Candidates = {m \in Scanned : fbObs[m].nonzero >= 0}

\* the same with a successful PAYOUT_PER_SHARE read (not a claim)
C29_ScanAfterPayoutRead ==
    (/\ DiscoveryDone /\ fallbackStarted
     /\ fbHead.count = "read" /\ fbHead.n > 0 /\ fbHead.payout = "read")
        => /\ \A m \in Scanned : fbObs[m].basic # "none"
           /\ (\A m \in Scanned : fbObs[m].basic = "read" /\ ~fbObs[m].fault)
                => Candidates = {m \in Scanned : fbObs[m].nonzero >= 0}

\* ------------------------------------------------------------------------
\* Properties of POST: the response
\* ------------------------------------------------------------------------

\* C27: in every response each market of winnings is an element of
\* participatedMarkets of the same response and occurs in winnings at most
\* once, so winnings is never longer than participatedMarkets; a market can
\* be in participatedMarkets without being in winnings (the witness).
C27_WinningsWithinParticipated ==
    pc = "done"
        => /\ \A i \in 1 .. Len(response.winningsData) :
                /\ InSeq(response.winningsData[i].marketId,
                         response.participatedMarkets)
                /\ \A j \in 1 .. Len(response.winningsData) :
                     response.winningsData[j].marketId
                        = response.winningsData[i].marketId => j = i
           /\ Len(response.winningsData) <= Len(response.participatedMarkets)

\* three markets participated in; only the middle one has winnings
C27_Witness ==
    /\ Answered
    /\ response.participatedMarkets = <<0, 1, 2>>
    /\ Len(response.winningsData) = 1
    /\ response.winningsData[1].marketId = 1
    /\ tradeIdCount = 3

\* positions in the log of the PAYOUT_PER_SHARE reads of
\* computeClaimableWinnings (the one of the fallback scan directly follows
\* the marketCount read)
BatchPayoutReads ==
    {k \in 2 .. Len(readLog) : /\ readLog[k].fn = "PAYOUT_PER_SHARE"
                               /\ readLog[k - 1].fn # "marketCount"}

\* the reads computeClaimableWinnings makes for a market
MarketReads == {"getMarketBasicInfo", "getMarketExtendedMeta",
                "getMarketOptionUserShares", "claimWinnings"}

Merged == lpc = "neynar" \/ (lpc = "idle" /\ lresponse.source = "refresh")

\* no V2 read of the request failed
NoV2Fault == v2Absent = {} /\ portfolioFailed = {}

\* winnings of the wallet in a contract generation, zero when it is not listed
Gen1Winnings(w) ==
    IF w \in ListedIds(v1Participants) THEN v1Stats[w].totalWinnings ELSE 0

Gen2Winnings(w) ==
    IF w \in ListedIds(v2Participants) THEN v2Portfolio[w].totalWinnings ELSE 0

\* positions of the entries of a list whose address is k up to letter case
EntriesFor(es, k) == {i \in 1 .. Len(es) : toLowerCase(es[i].user) = k}

LowerAddrs == {toLowerCase(a) : a \in Addrs}

\* C2: when a refresh fails after an earlier request stored a leaderboard
\* under CACHE_KEY, the request is answered with that stored list and not
\* with an error, also when the entry is past its TTL.
C2_StaleServedOnRefreshFailure ==
    (/\ lpc = "idle"
     /\ lresponse.source \in {"stale", "error"}
     /\ lastCached.state = "fresh")
        => /\ lresponse.status = 200
           /\ lresponse.body = lastCached.value

\* C3: the merged totalWinnings of every wallet is its generation-1 winnings
\* plus its generation-2 winnings, each counted once, whatever the two
\* participant lists contain (stated for requests without a failed V2 read).
C3_TotalIsSumOfGenerations ==
    (Merged /\ NoV2Fault)
        => \A i \in 1 .. Len(combinedEntries) :
             combinedEntries[i].totalWinnings
                = Gen1Winnings(combinedEntries[i].user.id)
                  + Gen2Winnings(combinedEntries[i].user.id)

\* C4: the merge is keyed by the lower-cased address: an address that is
\* once in entriesV1 and once in entriesV2, in whatever letter case, has one
\* merged entry with the sums of winnings and of counts; an address in one
\* list only has one merged entry with that list's values.
C4_MergeByLowerCasedAddress ==
    Merged =>
        \A k \in LowerAddrs :
            LET in1 == EntriesFor(entriesV1, k)
                in2 == EntriesFor(entriesV2, k)
                inC == EntriesFor(combinedEntries, k)
                w1  == IF in1 = {} THEN 0
                       ELSE entriesV1[CHOOSE i \in in1 : TRUE].totalWinnings
                c1  == IF in1 = {} THEN 0
                       ELSE entriesV1[CHOOSE i \in in1 : TRUE].voteCount
                w2  == IF in2 = {} THEN 0
                       ELSE entriesV2[CHOOSE i \in in2 : TRUE].totalWinnings
                c2  == IF in2 = {} THEN 0
                       ELSE entriesV2[CHOOSE i \in in2 : TRUE].voteCount
            IN  (/\ Cardinality(in1) <= 1
                 /\ Cardinality(in2) <= 1
                 /\ Cardinality(in1) + Cardinality(in2) >= 1)
                    => /\ Cardinality(inC) = 1
                       /\ \A i \in inC :
                            /\ combinedEntries[i].totalWinnings = w1 + w2
                            /\ combinedEntries[i].voteCount = c1 + c2

\* one wallet, mixed case in V1 and lower case in V2, merged into one entry
C4_Witness ==
    /\ Merged
    /\ \E i \in 1 .. Len(entriesV1) : \E j \in 1 .. Len(entriesV2) :
         /\ entriesV1[i].user.upper
         /\ ~entriesV2[j].user.upper
         /\ entriesV1[i].user.id = entriesV2[j].user.id
         /\ Len(entriesV1) = 2 /\ Len(entriesV2) = 1
         /\ entriesV1[3 - i].user.id # entriesV1[i].user.id
         /\ Len(combinedEntries) = 2
         /\ \E c \in 1 .. 2 :
              /\ combinedEntries[c].totalWinnings
                   = entriesV1[i].totalWinnings + entriesV2[j].totalWinnings
              /\ combinedEntries[c].totalWinnings >= 2

\* C5: a stored V2 participant index whose read came back null does not
\* hide the participants stored behind it: the portfolio of every later
\* stored participant is still fetched and, when that read succeeds with
\* nonzero winnings, the participant is in entriesV2.
C5_AbsentReadLosesNobody ==
    Merged =>
        \A i \in v2Absent :
            \A j \in (i + 1) .. (Min(Len(v2Participants), V2Limit) - 1) :
                /\ j \in portfolioFetched
                /\ (/\ j \notin portfolioFailed
                    /\ v2Portfolio[v2Participants[j + 1].id].totalWinnings > 0)
                       => EntriesFor(entriesV2,
                                     toLowerCase(v2Participants[j + 1])) # {}

\* the case without a wallet stored twice in allParticipants (not a claim)
NoV2Duplicate ==
    \A i, j \in 1 .. Len(v2Participants) :
        i # j => v2Participants[i].id # v2Participants[j].id

C3_WithoutV2Duplicates ==
    (Merged /\ NoV2Fault /\ NoV2Duplicate)
        => \A i \in 1 .. Len(combinedEntries) :
             combinedEntries[i].totalWinnings
                = Gen1Winnings(combinedEntries[i].user.id)
                  + Gen2Winnings(combinedEntries[i].user.id)

\* ------------------------------------------------------------------------
\* Properties of GET: enumeration
\* ------------------------------------------------------------------------

\* the V1 paging loop of the running or last request has ended normally
V1Done == lpc \in {"v2Batch", "v2Await", "v2Portfolio", "neynar"}
            \/ (lpc = "idle" /\ lresponse.source = "refresh")

\* C19 as stated: the page size is fixed, the offsets are 0, PAGE_SIZE, ...,
\* no page follows a page shorter than PAGE_SIZE and a further page follows
\* every full page.
C19_Original ==
    /\ \A k \in 1 .. Len(v1Pages) : v1Pages[k].offset = (k - 1) * PAGE_SIZE
    /\ V1Done
         => \A k \in 1 .. Len(v1Pages) :
              /\ v1Pages[k].returned < PAGE_SIZE => k = Len(v1Pages)
              /\ v1Pages[k].returned = PAGE_SIZE => k < Len(v1Pages)

\* C19 amended: the offsets are 0, PAGE_SIZE, ... and a page is requested
\* exactly for the offsets below the participant count read before paging;
\* every page but the last is full, and nothing is requested at or past
\* the count, whether the last page was full or short.
C19_PagesBelowCount ==
    /\ \A k \in 1 .. Len(v1Pages) :
         /\ v1Pages[k].offset = (k - 1) * PAGE_SIZE
         /\ v1Pages[k].offset < totalParticipantsV1
         /\ k < Len(v1Pages) => v1Pages[k].returned = PAGE_SIZE
    /\ V1Done
         => /\ Len(v1Pages) * PAGE_SIZE >= totalParticipantsV1
            /\ Len(entriesV1) = totalParticipantsV1

\* a full page followed by a short one, and nothing after it
C19_Witness ==
    /\ V1Done
    /\ Len(v1Pages) = 2
    /\ v1Pages[1].returned = PAGE_SIZE
    /\ v1Pages[2].returned < PAGE_SIZE
    /\ Len(entriesV1) = 3

\* what the read of V2 index i gave in this request
ExpectedRead(i) ==
    IF i < Len(v2Participants) /\ i \notin v2Absent
    THEN v2Participants[i + 1] ELSE Null

\* the first V2 index whose read gave null
FirstNull ==
    CHOOSE i \in 0 .. Len(v2Participants) :
        /\ ExpectedRead(i) = Null
        /\ \A j \in 0 .. (i - 1) : ExpectedRead(j) # Null

\* C20: the reads of a batch settle in any order; the batch is looked at only
\* after all of them have settled, its results are then in the order of the
\* indices, and the participants taken and the index at which the
\* enumeration stops are determined by the first index that gave null,
\* whatever the order in which the reads settled.
C20_BatchOrderIndependent ==
    /\ lpc = "v2Await"
         => /\ \E k \in 1 .. PAGE_SIZE : ~batchPromises[k].settled
            /\ batchResults = <<>> /\ bpos = 0
            /\ \A i \in portfolioFetched : i < v2ParticipantIndex
    /\ lpc = "v2Portfolio"
         => /\ \A k \in 1 .. PAGE_SIZE : batchPromises[k].settled
            /\ Len(batchResults) = PAGE_SIZE
            /\ \A k \in 1 .. PAGE_SIZE :
                 batchResults[k] = ExpectedRead(v2ParticipantIndex + k - 1)
    /\ Merged
         => /\ portfolioFetched = {i \in 0 .. (ReadLimit - 1) : i < FirstNull}
            /\ v2ParticipantIndex
                 = Min(((FirstNull \div PAGE_SIZE) + 1) * PAGE_SIZE, ReadLimit)

\* the read of index 1 settled before the read of index 0, and the batch is
\* scanned from index 0
C20_Witness ==
    /\ lpc = "v2Portfolio"
    /\ Len(v2Participants) = 2
    /\ v2ParticipantIndex = 0
    /\ batchPromises[2].seq = 1 /\ batchPromises[1].seq = 2
    /\ bpos = 1
    /\ batchResults = <<v2Participants[1], v2Participants[2]>>
    /\ v2Participants[1] # v2Participants[2]

\* ------------------------------------------------------------------------
\* Properties of GET: the list
\* ------------------------------------------------------------------------

\* the last request was answered with a list it built
Refreshed == lpc = "idle" /\ lresponse.source = "refresh"

\* the addresses of a leaderboard list
ListAddresses(lb) == {lb[i].address : i \in 1 .. Len(lb)}

\* the list has at most TopN entries, each with positive winnings, in
\* non-increasing order of winnings
RankedList(lb) ==
    /\ Len(lb) <= TopN
    /\ \A i \in 1 .. Len(lb) : lb[i].winnings.units > 0
    /\ \A i \in 1 .. (Len(lb) - 1) :
         lb[i].winnings.units >= lb[i + 1].winnings.units

\* C21: every list built by a request has at most TopN entries, every entry
\* has winnings > 0, the entries are in non-increasing order of winnings,
\* and every merged wallet with positive winnings that is left out has
\* winnings less than or equal to those of every entry kept; the list
\* stored under CACHE_KEY is such a list.
C21_TopNSortedPositive ==
    /\ Refreshed
         => /\ RankedList(lresponse.body)
            /\ \A c \in 1 .. Len(combinedEntries) :
                 (/\ combinedEntries[c].totalWinnings > 0
                  /\ combinedEntries[c].key \notin ListAddresses(lresponse.body))
                    => \A i \in 1 .. Len(lresponse.body) :
                         combinedEntries[c].totalWinnings
                            <= lresponse.body[i].winnings.units
    /\ RankedList(cacheLeaderboard.value)

\* three winners merged in ascending order of winnings; the list keeps the
\* two largest, largest first, and leaves the smallest out
C21_Witness ==
    /\ Refreshed
    /\ Len(combinedEntries) = 3
    /\ combinedEntries[1].totalWinnings = 1
    /\ combinedEntries[2].totalWinnings = 2
    /\ combinedEntries[3].totalWinnings = 3
    /\ Len(lresponse.body) = 2
    /\ lresponse.body[1].address = combinedEntries[3].key
    /\ lresponse.body[2].address = combinedEntries[2].key

\* ------------------------------------------------------------------------
\* Properties of GET: the cache
\* ------------------------------------------------------------------------

\* a request starts in this step
RequestStarts == lpc = "idle" /\ requestsLeft' = requestsLeft - 1

\* the handler stands at a ledger or identity-service read
AtRead == lpc \in {"decimals", "v1Count", "v1Page", "v2Batch", "v2Await",
                   "v2Portfolio", "neynar"}

\* C22: a request that finds the entry of CACHE_KEY within its TTL is
\* answered in its first step with the stored list, without reaching any
\* ledger or identity-service read and without touching the cache; a request
\* that does not find it is not answered from the cache; a request that
\* built a list has stored it under CACHE_KEY when it answers, so a request
\* served from the cache returns the list the last refresh stored.
C22_CacheFirstThenStore ==
    /\ [][RequestStarts =>
            IF cacheLeaderboard.state = "fresh"
            THEN /\ lpc' = "idle" /\ ~AtRead'
                 /\ lresponse' = LResponse(200, "cache", cacheLeaderboard.value)
                 /\ cacheLeaderboard.value = lastCached.value
                 /\ UNCHANGED <<cacheVars, lastCached>>
                 /\ v1Pages' = <<>> /\ portfolioFetched' = {}
            ELSE lresponse'.source # "cache"]_vars
    /\ [](Refreshed => /\ cacheLeaderboard.state # "absent"
                       /\ cacheLeaderboard.value = lresponse.body
                       /\ lastCached = FreshEntry(lresponse.body))

\* the second request is served from the cache with the non-empty list the
\* first one built
C22_Witness ==
    /\ lpc = "idle"
    /\ requestsLeft = MaxRequests - 2
    /\ lresponse.source = "cache"
    /\ lresponse.body # <<>>
    /\ lresponse.body = lastCached.value
    /\ cacheLeaderboard.state = "fresh"

\* the wallets, winnings and counts of a list, in its order
Numbers(lb) ==
    [i \in 1 .. Len(lb) |-> [address |-> lb[i].address,
                             winnings |-> lb[i].winnings,
                             voteCount |-> lb[i].voteCount]]

\* C25: the wallets, winnings, counts and order of the list a request
\* returns are those of its winners, sorted and cut, whatever the identity
\* lookups returned; a request that has reached the identity lookups is
\* answered with the list it builds, never with an error; an entry shows the
\* truncated address exactly when no identity is held for its wallet.
C25_NumbersIndependentOfIdentity ==
    /\ [](Refreshed
            => /\ Numbers(lresponse.body) = Take(SortDesc(winners), TopN)
               /\ \A i \in 1 .. Len(lresponse.body) :
                    lresponse.body[i].username = "truncated"
                       <=> lresponse.body[i].address \notin addressToUsersMap)
    /\ [][(lpc = "neynar" /\ parked' = parked)
            => /\ winners' = winners
               /\ lpc' \in {"neynar", "idle"}
               /\ lpc' = "idle" => /\ lresponse'.source = "refresh"
                                   /\ lresponse'.status = 200]_vars

\* three winners were looked up; the first of the list has no identity, the
\* second has one
C25_Witness ==
    /\ Refreshed
    /\ Len(winners) = 3
    /\ Len(addressesToFetch) = 3
    /\ Len(lresponse.body) = 2
    /\ lresponse.body[1].username = "truncated"
    /\ lresponse.body[2].username = "farcaster"
    /\ newUsersMap = {lresponse.body[2].address}

\* what cache.get(CACHE_KEY) returns: the list within its TTL, else nothing
Lookup(entry) ==
    IF entry.state = "fresh" THEN <<entry.value>> ELSE <<>>

\* C24: with NEYNAR_API_KEY not set, a request that misses the cache is
\* answered in its first step with the configuration error (status 500),
\* without reaching any ledger or identity-service read, and both cache
\* entries hold afterwards what they held before.
C24_MissingKeyFailsAtOnce ==
    [][(RequestStarts /\ ~NEYNAR_API_KEY /\ cacheLeaderboard.state # "fresh")
          => /\ lpc' = "idle" /\ ~AtRead'
             /\ lresponse' = LResponse(500, "config", <<>>)
             /\ Lookup(cacheLeaderboard') = Lookup(cacheLeaderboard)
             /\ cacheNeynar' = cacheNeynar
             /\ lastCached' = lastCached
             /\ v1Pages' = <<>> /\ portfolioFetched' = {}]_vars

\* both requests of the behaviour were answered with the configuration error
C24_Witness ==
    /\ ~NEYNAR_API_KEY
    /\ lpc = "idle"
    /\ requestsLeft = MaxRequests - 2
    /\ lresponse = LResponse(500, "config", <<>>)
    /\ cacheLeaderboard.state = "absent"
    /\ Len(v1Participants) > 0

\* the running request ends in this step without having built a list: one
\* of its ledger reads failed after its retries
RefreshFails ==
    /\ AtRead
    /\ lpc' = "idle"
    /\ parked' = parked
    /\ lresponse'.source # "refresh"

\* C23: a request whose refresh fails is answered with an error only if
\* cache.get(CACHE_KEY) finds no list at that moment (when it finds one the
\* request is answered with it), and the failing request stores nothing
\* under CACHE_KEY: a lookup finds afterwards what it found before.
C23_ErrorOnlyWithoutCache ==
    [][RefreshFails
          => /\ lresponse'.status # 200 => cacheLeaderboard.state # "fresh"
             /\ cacheLeaderboard.state = "fresh"
                  => /\ lresponse'.status = 200
                     /\ lresponse'.body = cacheLeaderboard.value
             /\ Lookup(cacheLeaderboard') = Lookup(cacheLeaderboard)
             /\ lastCached' = lastCached]_vars

\* the refresh of the running request failed after the other request had
\* stored its list, and the running request was answered with that list
C23_Witness ==
    /\ lpc = "idle" /\ parked.lpc = "idle"
    /\ lresponse.source = "stale" /\ lresponse.status = 200
    /\ parked.lresponse.source = "refresh"
    /\ lresponse.body = parked.lresponse.body
    /\ lresponse.body # <<>>
    /\ cacheLeaderboard = FreshEntry(lresponse.body)

\* both requests have been answered with a list they built
BothRefreshed ==
    /\ Refreshed
    /\ parked.lpc = "idle" /\ parked.lresponse.source = "refresh"

\* C26: when two refreshes interleave, after both have completed the
\* identity map stored under NEYNAR_CACHE_KEY contains every identity that
\* either request fetched, and the entry of CACHE_KEY holds the complete
\* list built by one of the two requests.
C26_NoLostIdentity ==
    BothRefreshed
        => /\ cacheNeynar.state = "fresh"
                => (newUsersMap \cup parked.newUsersMap) \subseteq cacheNeynar.value
           /\ cacheLeaderboard.state = "fresh"
           /\ cacheLeaderboard.value \in {lresponse.body, parked.lresponse.body}

\* the half of C26 about the entry of CACHE_KEY (not a claim)
C26_ListIsOneOfTheTwo ==
    BothRefreshed
        => /\ cacheLeaderboard.state = "fresh"
           /\ cacheLeaderboard.value \in {lresponse.body, parked.lresponse.body}

\* ------------------------------------------------------------------------
\* Properties of both routes: termination
\* ------------------------------------------------------------------------

\* C30: exploration is bounded and ends whatever the ledger returns: a POST
\* request issues its trade-history reads at indices below maxAttempts, one
\* per index, scans markets below min(marketCount, cap) only, and reaches a
\* response; the generation-2 enumeration starts a batch only below the
\* safety limit, reads no index at or past the limit rounded up to whole
\* batches even if no read gives null, and the request is answered.
C30_BoundedAndTerminates ==
    /\ [](/\ pc = "trades" => index < maxAttempts /\ Len(trades) = index
          /\ pc \in {"fbBasic", "fbShares"}
               => marketId < mCount /\ marketId < ScanCap
          /\ Len(markets) <= ScanCap
          /\ fallbackReads <= 2 + ScanCap * (1 + MaxOptions)
          /\ lpc \in {"v2Batch", "v2Await", "v2Portfolio"}
               => v2ParticipantIndex < V2Limit
          /\ v2ParticipantIndex <= ReadLimit
          /\ \A i \in portfolioFetched : i < ReadLimit)
    /\ (pc # "idle") ~> (pc = "done")
    /\ (lpc # "idle") ~> (lpc = "idle")
    /\ <>(pc = "done" /\ lpc = "idle" /\ requestsLeft = 0)

\* every index up to the limit held a participant: the enumeration stopped
\* at the limit without having read an absent entry
C30_Witness ==
    /\ Refreshed
    /\ Len(v2Participants) = ReadLimit
    /\ v2Absent = {}
    /\ portfolioFetched = 0 .. (ReadLimit - 1)
    /\ v2ParticipantIndex = ReadLimit
    /\ portfolioFailed = {}
    /\ Len(lresponse.body) = 1

\* ------------------------------------------------------------------------
\* Properties of withRetry
\* ------------------------------------------------------------------------

\* C15: with retries >= 1, fn is invoked at most retries times and never
\* again after an invocation succeeded; the call returns the value of the
\* successful invocation, and it throws only after retries failed
\* invocations, the error thrown being the one of the last invocation.
C15_RetryBoundedLastError ==
    retries >= 1
        => /\ Len(calls) <= retries
           /\ \A k \in 1 .. (Len(calls) - 1) : ~calls[k].ok
           /\ rpc = "returned"
                => /\ calls # <<>> /\ calls[Len(calls)].ok
                   /\ retryResult = Returned(calls[Len(calls)].value)
           /\ rpc = "thrown"
                => /\ Len(calls) = retries
                   /\ ~calls[retries].ok
                   /\ retryResult.kind = "error"
                   /\ retryResult.thrownBy = retries
                   /\ retryResult.status = calls[retries].status

\* three failures with different errors; the third one is thrown
C15_Witness ==
    /\ rpc = "thrown"
    /\ retries = 3
    /\ calls[1].status = RateLimited
    /\ calls[3].status = 500
    /\ retryResult.status = 500 /\ retryResult.thrownBy = 3

\* C16: the wait after failed invocation number k (from 0) that is not the
\* last allowed one is baseDelay * 2^k, raised to the floor when the failure
\* has status 429; no wait follows the last allowed invocation.
C16_BackoffSchedule ==
    /\ \A k \in 1 .. Len(delays) :
         /\ k <= Len(calls) /\ ~calls[k].ok
         /\ k < retries
         /\ delays[k] = IF calls[k].status = 429
                        THEN Max(baseDelay * 2 ^ (k - 1), RateLimitFloor)
                        ELSE baseDelay * 2 ^ (k - 1)
         /\ calls[k].status = 429 => delays[k] >= RateLimitFloor
    /\ rpc \in {"calling", "sleeping"} => Len(delays) = Len(calls)
    /\ (rpc \in {"returned", "thrown"} /\ retries >= 1)
         => Len(delays) = Len(calls) - 1

\* a rate-limited first failure waits the floor, a later plain failure waits
\* the exponential delay above the floor, the last failure waits nothing
C16_Witness ==
    /\ rpc = "thrown"
    /\ retries = 3
    /\ calls[1].status = RateLimited /\ delays[1] = RateLimitFloor
    /\ delays[1] > baseDelay
    /\ calls[2].status = 500 /\ delays[2] = baseDelay * 2
    /\ delays[2] > RateLimitFloor
    /\ Len(delays) = 2

=============================================================================
